---- MODULE Spec2Model ----
(***************************************************************************)
(* A model of xmlstruct: the schema compiler (derive) that turns a         *)
(* dataclass type graph into encodings, and the decode engine              *)
(* (DocumentEncoding.parse) that runs those encodings over an element      *)
(* tree.  Python objects are records; the exceptions a call raises are     *)
(* results with ok = FALSE (decode) or a non-empty err field (compile).    *)
(***************************************************************************)
EXTENDS Integers, Sequences, FiniteSets, TLC

(***************************************************************************)
(* Bounds of the model.                                                    *)
(***************************************************************************)
\* longest child list of the root element of an input document
MaxChildren == 3
\* depth at which the interpreter gives up a recursion (RecursionError);
\* scaled down from the interpreter's default
RecursionLimit == 12
\* longest field list of the generated record layouts
MaxFields == 3
\* most attributes on the root element of an input document
MaxAttribs == 3
\* longest text of the exhaustively enumerated texts
MaxLen == 5
\* most elements of an event stream given to XmlParser
MaxNodes == 4

(***************************************************************************)
(* Python sentinels.                                                       *)
(***************************************************************************)
\* None where a string is expected (a namespace, a name override)
PyNone == "<None>"

DefaultNamespace == "<DefaultNamespace>"

\* the decoded value None
VNone == [k |-> "None"]

NoValue == [k |-> "NoValue"]

VStr(s) == [k |-> "str", v |-> s]

VInt(n) == [k |-> "int", v |-> n]

VList(items) == [k |-> "list", v |-> items]

\* an instance of dataclass cls built from positional arguments
VObj(cls, args) == [k |-> "obj", cls |-> cls, args |-> args]

(***************************************************************************)
(* dict: an insertion-ordered sequence of key/value entries.               *)
(***************************************************************************)
DictHas(d, key) == \E i \in 1..Len(d) : d[i].key = key

DictIndex(d, key) == CHOOSE i \in 1..Len(d) : d[i].key = key

DictGet(d, key) == d[DictIndex(d, key)].val

DictSet(d, key, val) ==
    IF DictHas(d, key)
    THEN [d EXCEPT ![DictIndex(d, key)] = [key |-> key, val |-> val]]
    ELSE Append(d, [key |-> key, val |-> val])

(***************************************************************************)
(* Qualified names.  _resolve_full_tag builds "{namespace}local_name", or  *)
(* the bare local_name when the namespace is None; the string is kept as   *)
(* the pair it is built from.                                              *)
(***************************************************************************)
_resolve_full_tag(local_name, namespace) ==
    IF namespace = PyNone
    THEN [ns |-> PyNone, local |-> local_name]
    ELSE [ns |-> namespace, local |-> local_name]

(***************************************************************************)
(* The type description: type expressions and the annotations of           *)
(* typing.Annotated.                                                       *)
(***************************************************************************)
TStr == [k |-> "str"]

TInt == [k |-> "int"]

\* datetime.date
TDate == [k |-> "date"]

TNoneType == [k |-> "NoneType"]

TClass(cls) == [k |-> "dataclass", cls |-> cls]

TList(t) == [k |-> "list", args |-> <<t>>]

TUnion(ts) == [k |-> "Union", args |-> ts]

TOptional(t) == TUnion(<<t, TNoneType>>)

TAnnotated(t, meta) == [k |-> "Annotated", args |-> <<t>>, meta |-> meta]

Value(name, namespace) == [a |-> "Value", name |-> name, namespace |-> namespace]

Attribute(name, namespace) == [a |-> "Attribute", name |-> name, namespace |-> namespace]

TextValue == [a |-> "TextValue"]

Variant(name, namespace) == [a |-> "Variant", name |-> name, namespace |-> namespace]

\* an encoding object given as an annotation argument
ValueEncodingArg(encoding) == [a |-> "ValueEncoding", encoding |-> encoding]

\* no annotation argument found
NoConfig == [a |-> "None"]

Field(name, type) == [name |-> name, type |-> type]

\* a dataclass; layout is empty for the named classes
Class(name) == [name |-> name, layout |-> <<>>]

(***************************************************************************)
(* The dataclasses the model compiles: dataclasses.fields(cls) with the    *)
(* type hints resolved.  The named classes follow the records of the test  *)
(* suite; the class "Rec" has one field per entry of its layout.           *)
(***************************************************************************)
FieldNames == <<"f1", "f2", "f3", "f4", "f5">>

LayoutKinds == {"value", "text", "attribute"}

LayoutField(kind, i) ==
    CASE kind = "value" -> Field(FieldNames[i], TOptional(TStr))
      [] kind = "text" -> Field(FieldNames[i], TAnnotated(TOptional(TStr), <<TextValue>>))
      [] kind = "attribute" ->
            Field(FieldNames[i], TAnnotated(TOptional(TStr), <<Attribute(PyNone, DefaultNamespace)>>))

\* the namespace argument of a Value or Attribute annotation, or no annotation
NsOptions == {DefaultNamespace, PyNone, "urn:field", "plain"}

\* field i of the classes "NsValue" and "NsAttr": Optional[str], annotated with
\* Value or Attribute unless plain; the second field carries a name override
NsField(cls, i) ==
    IF cls.layout[i] = "plain"
    THEN Field(FieldNames[i], TOptional(TStr))
    ELSE IF cls.name = "NsValue"
    THEN Field(FieldNames[i],
               TAnnotated(TOptional(TStr),
                          <<Value(IF i = 2 THEN "b" ELSE PyNone, cls.layout[i])>>))
    ELSE Field(FieldNames[i],
               TAnnotated(TOptional(TStr),
                          <<Attribute(IF i = 2 THEN "b" ELSE PyNone, cls.layout[i])>>))

UnionAB(tagA, tagB) ==
    TUnion(<<TAnnotated(TClass(Class("A")), <<Variant(tagA, DefaultNamespace)>>),
             TAnnotated(TClass(Class("B")), <<Variant(tagB, DefaultNamespace)>>)>>)

\* the records with two fields that resolve to the same key of the arguments
\* dict: an attribute and a child element of one name, two child elements of
\* one tag, a text-content field named like the tag of a child element
ClashKinds == {"attribute", "value", "text"}

ClashFields(kind) ==
    CASE kind = "attribute" ->
            <<Field("a", TAnnotated(TOptional(TStr), <<Attribute(PyNone, DefaultNamespace)>>)),
              Field("b", TAnnotated(TOptional(TStr), <<Value("a", DefaultNamespace)>>))>>
      [] kind = "value" ->
            <<Field("x", TAnnotated(TOptional(TStr), <<Value("a", DefaultNamespace)>>)),
              Field("y", TAnnotated(TOptional(TInt), <<Value("a", DefaultNamespace)>>))>>
      [] kind = "text" ->
            <<Field("a", TAnnotated(TOptional(TStr), <<TextValue>>)),
              Field("b", TAnnotated(TOptional(TStr), <<Value("a", DefaultNamespace)>>))>>

dataclasses_fields(cls) ==
    CASE cls.name = "Clash" -> ClashFields(cls.layout[1])
      [] cls.name = "Data" ->
            <<Field("a", TStr), Field("b", TOptional(TStr)), Field("c", TOptional(TInt))>>
      [] cls.name = "Int" ->
            <<Field("c", TInt)>>
      [] cls.name = "List" ->
            <<Field("items", TAnnotated(TList(TStr), <<Value("item", DefaultNamespace)>>)),
              Field("a", TOptional(TStr))>>
      [] cls.name = "Group" ->
            <<Field("name", TStr), Field("group", TOptional(TClass(Class("Group"))))>>
      [] cls.name = "Schema" ->
            <<Field("group", TClass(Class("Group")))>>
      [] cls.name = "Ping" ->
            <<Field("pong", TOptional(TClass(Class("Pong"))))>>
      [] cls.name = "Pong" ->
            <<Field("ping", TOptional(TClass(Class("Ping")))),
              Field("again", TList(TClass(Class("Pong"))))>>
      [] cls.name = "A" ->
            <<Field("value", TAnnotated(TStr, <<TextValue>>))>>
      [] cls.name = "B" ->
            <<Field("value", TAnnotated(TStr, <<TextValue>>))>>
      [] cls.name = "Wrapper" ->
            <<Field("u", UnionAB("a", "b"))>>
      [] cls.name = "SameTag" ->
            <<Field("u", UnionAB("a", "a"))>>
      [] cls.name = "NoVariant" ->
            <<Field("u", TUnion(<<TClass(Class("A")), TClass(Class("B"))>>))>>
      [] cls.name = "Text" ->
            <<Field("value", TAnnotated(TOptional(TStr), <<TextValue>>)),
              Field("a", TOptional(TStr))>>
      [] cls.name = "Attr" ->
            <<Field("a", TAnnotated(TStr, <<Attribute(PyNone, DefaultNamespace)>>)),
              Field("value", TAnnotated(TStr, <<TextValue>>))>>
      [] cls.name = "IncList" ->
            <<Field("item",
                    TList(TAnnotated(TInt,
                                     <<ValueEncodingArg([kind |-> "Required",
                                                         decode |-> [d |-> "_decode_inc"]])>>)))>>
      [] cls.name = "IncField" ->
            <<Field("item",
                    TAnnotated(TInt,
                               <<ValueEncodingArg([kind |-> "Required",
                                                   decode |-> [d |-> "_decode_inc"]])>>))>>
      [] cls.name = "Dated" ->
            <<Field("a", TStr), Field("e", TDate)>>
      [] cls.name = "Attrs" ->
            <<Field("a", TAnnotated(TOptional(TStr), <<Attribute(PyNone, DefaultNamespace)>>)),
              Field("not_b", TAnnotated(TStr, <<Attribute("b", DefaultNamespace)>>)),
              Field("c", TAnnotated(TOptional(TInt), <<Attribute(PyNone, PyNone)>>))>>
      [] cls.name = "Rec" ->
            [i \in 1..Len(cls.layout) |-> LayoutField(cls.layout[i], i)]
      [] cls.name \in {"NsValue", "NsAttr"} ->
            [i \in 1..Len(cls.layout) |-> NsField(cls, i)]

(***************************************************************************)
(* Encodings.  A RequiredValueEncoding holds its decode routine; the       *)
(* encoding of a dataclass is an object on the heap whose decode is        *)
(* assigned after construction, so it is held by reference.  Optional and  *)
(* List encodings read the decode of their inner encoding when called.     *)
(***************************************************************************)
RequiredValueEncoding(decode) == [kind |-> "Required", decode |-> decode]

OptionalValueEncoding(inner_encoding) == [kind |-> "Optional", inner |-> inner_encoding]

ListEncoding(inner_encoding) == [kind |-> "List", inner |-> inner_encoding]

\* the absent encoding (None)
NoEncoding == [kind |-> "None"]

\* the RequiredValueEncoding object number id of the heap
ClassEncoding(id) == [kind |-> "Required", decode |-> [d |-> "object", id |-> id]]

_none_decoder == [d |-> "_none_decoder"]

Encodings_String == RequiredValueEncoding([d |-> "_parse_string"])

Encodings_Integer == RequiredValueEncoding([d |-> "_parse_int"])

RequiredAttributeEncoding(decode) == [kind |-> "RequiredAttribute", decode |-> decode]

OptionalAttributeEncoding(inner_encoding) == [kind |-> "OptionalAttribute", inner |-> inner_encoding]

AttributeEncodings_String == RequiredAttributeEncoding("str")

AttributeEncodings_Integer == RequiredAttributeEncoding("int")

(***************************************************************************)
(* Field metadata: the annotation arguments of a field.                    *)
(***************************************************************************)
AnnotationArgs(field) == IF field.type.k = "Annotated" THEN field.type.meta ELSE <<>>

\* the first position of args whose annotation kind is in kinds, 0 if none
FirstArg(args, kinds) ==
    IF \E i \in 1..Len(args) : args[i].a \in kinds
    THEN CHOOSE i \in 1..Len(args) :
            /\ args[i].a \in kinds
            /\ \A j \in 1..(i - 1) : args[j].a \notin kinds
    ELSE 0

_get_field_config(field) ==
    LET args == AnnotationArgs(field)
        i == FirstArg(args, {"Value", "Attribute", "TextValue"})
    IN  IF i = 0 THEN NoConfig ELSE args[i]

_get_value_encoding(field) ==
    LET args == AnnotationArgs(field)
        i == FirstArg(args, {"ValueEncoding"})
    IN  IF i = 0 THEN NoEncoding ELSE args[i].encoding

_get_attribute_encoding(field) ==
    LET args == AnnotationArgs(field)
        i == FirstArg(args, {"AttributeEncoding"})
    IN  IF i = 0 THEN NoEncoding ELSE args[i].encoding

_get_metadata(field) ==
    LET config == _get_field_config(field)
    IN  IF config.a = "Value"
        THEN [m |-> "ValueMetadata", config |-> config, encoding |-> _get_value_encoding(field)]
        ELSE IF config.a = "TextValue"
        THEN [m |-> "TextValueMetadata", config |-> config, encoding |-> _get_value_encoding(field)]
        ELSE IF config.a = "Attribute"
        THEN [m |-> "AttributeMetadata", config |-> config,
              encoding |-> _get_attribute_encoding(field)]
        ELSE IF _get_attribute_encoding(field).kind # "None"
        THEN [m |-> "AttributeMetadata", config |-> NoConfig,
              encoding |-> _get_attribute_encoding(field)]
        ELSE [m |-> "ValueMetadata", config |-> NoConfig, encoding |-> _get_value_encoding(field)]

_get_tag_default_first(config, member_name, default_namespace) ==
    IF config.a \in {"Value", "Attribute"}
    THEN LET namespace == IF config.namespace \in {DefaultNamespace, PyNone}
                          THEN default_namespace
                          ELSE config.namespace
         IN  _resolve_full_tag(IF config.name \in {PyNone, ""} THEN member_name ELSE config.name,
                               namespace)
    ELSE _resolve_full_tag(member_name, default_namespace)

_get_tag(config, member_name, default_namespace) ==
    IF config.a \in {"Value", "Attribute"}
    THEN LET namespace == IF config.namespace = DefaultNamespace
                          THEN default_namespace
                          ELSE config.namespace
         IN  _resolve_full_tag(IF config.name \in {PyNone, ""} THEN member_name ELSE config.name,
                               namespace)
    ELSE _resolve_full_tag(member_name, default_namespace)

\* the tag of the first Variant among type_args, NoTag if there is none
NoTag == [ns |-> PyNone, local |-> PyNone]

_get_variant_tag(type_args, default_namespace) ==
    LET i == FirstArg(type_args, {"Variant"})
    IN  IF i = 0
        THEN NoTag
        ELSE _resolve_full_tag(type_args[i].name,
                               IF type_args[i].namespace = DefaultNamespace
                               THEN default_namespace
                               ELSE type_args[i].namespace)

\* the T of Optional[T]; TNoneType stands for the result None
_get_optional_type(inner_types) ==
    IF Len(inner_types) # 2
    THEN TNoneType
    ELSE IF inner_types[1].k = "NoneType"
    THEN inner_types[2]
    ELSE IF inner_types[2].k = "NoneType"
    THEN inner_types[1]
    ELSE TNoneType

StripAnnotated(attribute_type) ==
    IF attribute_type.k = "Annotated" THEN attribute_type.args[1] ELSE attribute_type

(***************************************************************************)
(* The compiler.  Its state st is the encoding cache of one derive() call, *)
(* the heap of dataclass encodings, the exception raised so far (err) and  *)
(* the trace of what was cached and compiled.  A call returns the encoding *)
(* and the new state; a call that raised leaves err set and every caller   *)
(* passes it on.                                                           *)
(***************************************************************************)
EmptyCompile == [cache |-> <<>>, heap |-> <<>>, err |-> "", trace |-> <<>>]

Return(enc, st) == [enc |-> enc, st |-> st]

Raise(st, err) == [enc |-> NoEncoding, st |-> [st EXCEPT !.err = err]]

RECURSIVE _derive_attribute(_, _)
_derive_attribute(attribute_type0, depth) ==
    LET attribute_type == StripAnnotated(attribute_type0)
    IN  IF depth > RecursionLimit
        THEN [enc |-> NoEncoding, err |-> "RecursionError"]
        ELSE IF attribute_type.k = "str"
        THEN [enc |-> AttributeEncodings_String, err |-> ""]
        ELSE IF attribute_type.k = "int"
        THEN [enc |-> AttributeEncodings_Integer, err |-> ""]
        ELSE IF attribute_type.k = "Union"
        THEN LET optional_type == _get_optional_type(attribute_type.args)
             IN  IF optional_type.k # "NoneType"
                 THEN LET r == _derive_attribute(optional_type, depth + 1)
                      IN  IF r.err # "" THEN r
                          ELSE [enc |-> OptionalAttributeEncoding(r.enc), err |-> ""]
                 ELSE [enc |-> NoEncoding, err |-> "TypeError: Unknown Union"]
        ELSE [enc |-> NoEncoding, err |-> "TypeError: Missing annotation for type"]

\* lines 521-522: the stub encoding is created and cached before the fields
\* are compiled
CacheStubNever(cls, st) ==
    [st EXCEPT !.heap = Append(@, [cls |-> cls, decode |-> _none_decoder]),
               !.trace = Append(@, [ev |-> "stub", cls |-> cls, cached |-> FALSE])]

CacheStub(cls, st) ==
    [st EXCEPT !.heap = Append(@, [cls |-> cls, decode |-> _none_decoder]),
               !.cache = DictSet(@, cls, Len(st.heap) + 1),
               !.trace = Append(@, [ev |-> "stub", cls |-> cls, cached |-> FALSE])]

\* line 493: variant_encodings[variant_tag] = ...
SetVariant(variant_encodings, variant_tag, encoding) ==
    DictSet(variant_encodings, variant_tag, encoding)

\* lines 556-557: a second TextValue field is refused
SecondTextValueNever(text_value_encoding) == FALSE

SecondTextValue(text_value_encoding) == Len(text_value_encoding) # 0

RECURSIVE _derive(_, _, _, _)
RECURSIVE _derive_union(_, _, _, _, _, _)
RECURSIVE _derive_dataclass(_, _, _, _)
RECURSIVE DeriveFields(_, _, _, _, _, _)

\* OptionalValueEncoding(_derive(optional_type, ...)), lines 450-452
DeriveOptional(derived) ==
    IF derived.st.err # "" THEN derived
    ELSE Return(OptionalValueEncoding(derived.enc), derived.st)

\* ListEncoding(_derive(inner_type, ...)), lines 457-459
DeriveList(derived) ==
    IF derived.st.err # "" THEN derived
    ELSE Return(ListEncoding(derived.enc), derived.st)

_derive(attribute_type0, st, default_namespace, depth) ==
    LET attribute_type == StripAnnotated(attribute_type0)
    IN  IF depth > RecursionLimit
        THEN Raise(st, "RecursionError")
        ELSE IF attribute_type.k = "dataclass" /\ DictHas(st.cache, attribute_type.cls)
        THEN Return(ClassEncoding(DictGet(st.cache, attribute_type.cls)), st)
        ELSE IF attribute_type.k = "dataclass"
        THEN _derive_dataclass(attribute_type.cls, st, default_namespace, depth + 1)
        ELSE IF attribute_type.k = "str"
        THEN Return(Encodings_String, st)
        ELSE IF attribute_type.k = "int"
        THEN Return(Encodings_Integer, st)
        ELSE IF attribute_type.k = "Union"
        THEN IF _get_optional_type(attribute_type.args).k # "NoneType"
             THEN DeriveOptional(_derive(_get_optional_type(attribute_type.args), st,
                                         default_namespace, depth + 1))
             ELSE _derive_union(attribute_type.args, 1, <<>>, st, default_namespace, depth + 1)
        ELSE IF attribute_type.k = "list"
        THEN DeriveList(_derive(attribute_type.args[1], st, default_namespace, depth + 1))
        ELSE Raise(st, "TypeError: Missing annotation for type")

\* the variant at position i is compiled (derived): it is stored under its tag
\* and the loop goes on
DeriveVariant(variants, i, variant_encodings, variant_tag, derived, default_namespace, depth) ==
    IF derived.st.err # "" THEN derived
    ELSE _derive_union(variants, i + 1,
                       SetVariant(variant_encodings, variant_tag, derived.enc),
                       derived.st, default_namespace, depth)

\* the loop over the variants from position i on, then the union encoding
_derive_union(variants, i, variant_encodings, st, default_namespace, depth) ==
    IF i > Len(variants)
    THEN Return(RequiredValueEncoding([d |-> "union", variant_encodings |-> variant_encodings]),
                st)
    ELSE IF variants[i].k # "Annotated"
    THEN Raise(st, "XmlStructError: Missing union variant annotation")
    ELSE IF _get_variant_tag(variants[i].meta, default_namespace) = NoTag
    THEN Raise(st, "XmlStructError: Missing union variant annotation")
    ELSE DeriveVariant(variants, i, variant_encodings,
                       _get_variant_tag(variants[i].meta, default_namespace),
                       _derive(variants[i].args[1], st, default_namespace, depth + 1),
                       default_namespace, depth)

\* the encoding of a field: the one of its annotation, else the derived one;
\* attribute encodings are derived without the cache
FieldEncoding(field, metadata, st, default_namespace, depth) ==
    IF metadata.encoding.kind # "None"
    THEN Return(metadata.encoding, st)
    ELSE IF metadata.m = "AttributeMetadata"
    THEN LET derived == _derive_attribute(field.type, depth + 1)
         IN  [enc |-> derived.enc, st |-> [st EXCEPT !.err = derived.err]]
    ELSE _derive(field.type, st, default_namespace, depth + 1)

\* the bookkeeping of one field, lines 552-554, 566-567 and 574-576
AddField(acc, field, metadata, encoding, default_namespace) ==
    IF metadata.m = "ValueMetadata"
    THEN [acc EXCEPT
            !.value_encodings =
                Append(@, <<_get_tag(metadata.config, field.name, default_namespace), encoding>>),
            !.argument_names =
                Append(@, _get_tag(metadata.config, field.name, default_namespace))]
    ELSE IF metadata.m = "TextValueMetadata"
    THEN [acc EXCEPT
            !.text_value_encoding = <<field.name, encoding>>,
            !.argument_names = Append(@, _resolve_full_tag(field.name, PyNone))]
    ELSE [acc EXCEPT
            !.attribute_encodings =
                Append(@, <<_get_tag(metadata.config, field.name, default_namespace), encoding>>),
            !.argument_names =
                Append(@, _get_tag(metadata.config, field.name, default_namespace))]

\* the field at position i has its encoding (derived): the loop goes on
DeriveField(cls, i, acc, field, metadata, derived, default_namespace, depth) ==
    IF derived.st.err # ""
    THEN [acc |-> acc, st |-> derived.st]
    ELSE DeriveFields(cls, i + 1,
                      AddField(acc, field, metadata, derived.enc, default_namespace),
                      derived.st, default_namespace, depth)

\* the loop over the fields of cls from position i on; acc holds
\* argument_names, value_encodings, text_value_encoding, attribute_encodings
DeriveFields(cls, i, acc, st, default_namespace, depth) ==
    IF i > Len(dataclasses_fields(cls))
    THEN [acc |-> acc, st |-> st]
    ELSE
    LET field == dataclasses_fields(cls)[i]
        metadata == _get_metadata(field)
        st1 == [st EXCEPT !.trace = Append(@, [ev |-> "field", cls |-> cls,
                                                  cached |-> DictHas(st.cache, cls)])]
    IN  IF metadata.m = "TextValueMetadata" /\ SecondTextValue(acc.text_value_encoding)
        THEN [acc |-> acc,
              st |-> [st1 EXCEPT !.err = "XmlStructError: TextValue can only be used once"]]
        ELSE DeriveField(cls, i, acc, field, metadata,
                         FieldEncoding(field, metadata, st1, default_namespace, depth),
                         default_namespace, depth)

\* lines 578-606: the decode routine is built from the bindings of the fields
\* and assigned to the stub
\* a compilation that returns the stub as it was created
KeepStub(cls, id, fields) ==
    IF fields.st.err # ""
    THEN Raise(fields.st, fields.st.err)
    ELSE Return(ClassEncoding(id), fields.st)

AssignDecode(cls, id, fields) ==
    IF fields.st.err # ""
    THEN Raise(fields.st, fields.st.err)
    ELSE Return(ClassEncoding(id),
                [fields.st EXCEPT !.heap[id].decode =
                    [d |-> "dataclass", cls |-> cls,
                     argument_names |-> fields.acc.argument_names,
                     value_encodings |-> fields.acc.value_encodings,
                     text_value_encoding |-> fields.acc.text_value_encoding,
                     attribute_encodings |-> fields.acc.attribute_encodings]])

_derive_dataclass(cls, st, default_namespace, depth) ==
    AssignDecode(cls, Len(st.heap) + 1,
                 DeriveFields(cls, 1,
                              [argument_names |-> <<>>, value_encodings |-> <<>>,
                               text_value_encoding |-> <<>>, attribute_encodings |-> <<>>],
                              CacheStub(cls, st), default_namespace, depth))

\* DocumentEncoding(encoding, xml_tag), with the heap the encodings refer to;
\* err, cache and trace record how the compilation went
DocumentEncoding(derived, xml_tag) ==
    [encoding |-> derived.enc, xml_tag |-> xml_tag, heap |-> derived.st.heap,
     err |-> derived.st.err, cache |-> derived.st.cache, trace |-> derived.st.trace]

\* derive(): a DocumentEncoding, or the exception the compilation raised
derive(attribute_type, local_name, namespace) ==
    DocumentEncoding(_derive(attribute_type, EmptyCompile, namespace, 1),
                     _resolve_full_tag(local_name, namespace))

(***************************************************************************)
(* Text.  A string is the sequence of its characters.                      *)
(***************************************************************************)
Whitespace == {" ", "\t", "\n"}

DigitValue == [c \in {"0", "1", "2"} |-> CASE c = "0" -> 0 [] c = "1" -> 1 [] c = "2" -> 2]

\* the position of the first whitespace character of value, Len + 1 if none
FirstWhitespace(value) ==
    IF \E i \in 1..Len(value) : value[i] \in Whitespace
    THEN CHOOSE i \in 1..Len(value) :
            /\ value[i] \in Whitespace
            /\ \A j \in 1..(i - 1) : value[j] \notin Whitespace
    ELSE Len(value) + 1

\* str.split(): the words between runs of whitespace
RECURSIVE str_split(_)
str_split(value) ==
    IF Len(value) = 0
    THEN <<>>
    ELSE IF value[1] \in Whitespace
    THEN str_split(Tail(value))
    ELSE LET n == FirstWhitespace(value)
         IN  <<SubSeq(value, 1, n - 1)>> \o str_split(SubSeq(value, n, Len(value)))

\* sep.join(words)
RECURSIVE str_join(_, _)
str_join(sep, words) ==
    IF Len(words) = 0
    THEN <<>>
    ELSE IF Len(words) = 1
    THEN words[1]
    ELSE words[1] \o sep \o str_join(sep, Tail(words))

\* a normalization that keeps one space of a trailing run of whitespace
_parse_token_trailing(value) ==
    IF Len(value) > 0 /\ value[Len(value)] \in Whitespace
    THEN str_join(<<" ">>, str_split(value)) \o <<" ">>
    ELSE str_join(<<" ">>, str_split(value))

\* " ".join(value.split())
_parse_token(value) == str_join(<<" ">>, str_split(value))

(***************************************************************************)
(* Results of the decode engine: a value, or the exception raised.         *)
(***************************************************************************)
Ok(val) == [ok |-> TRUE, val |-> val, err |-> ""]

Err(err) == [ok |-> FALSE, val |-> VNone, err |-> err]

RECURSIVE DigitsValue(_)
DigitsValue(digits) ==
    IF Len(digits) = 0
    THEN 0
    ELSE 10 * DigitsValue(SubSeq(digits, 1, Len(digits) - 1)) + DigitValue[digits[Len(digits)]]

\* int(s): surrounding whitespace is ignored, the rest must be decimal digits
int(s) ==
    LET words == str_split(s)
    IN  IF Len(words) = 1 /\ \A i \in 1..Len(words[1]) : words[1][i] \in DOMAIN DigitValue
        THEN Ok(VInt(DigitsValue(words[1])))
        ELSE Err("ValueError")

(***************************************************************************)
(* Elements.  An element has a tag, attributes, the text before its first  *)
(* child, and its children.  The decode routines read nothing else of an   *)
(* element.                                                                *)
(***************************************************************************)
Element(tag, attrib, text, children) ==
    [tag |-> tag, attrib |-> attrib, text |-> text, children |-> children]

\* node.text: None when there is no character data before the first child
node_text(node) == IF Len(node.text) = 0 THEN VNone ELSE VStr(node.text)

node_get_first(node, name) ==
    IF Len(node.attrib) > 0 /\ node.attrib[1].key = name
    THEN VStr(node.attrib[1].val)
    ELSE VNone

\* node.get(name): the value of the attribute, None when it is absent
node_get(node, name) ==
    IF DictHas(node.attrib, name) THEN VStr(DictGet(node.attrib, name)) ELSE VNone

_parse_string(node) == Ok(node_text(node))

_parse_int(node) ==
    LET value == node_text(node)
    IN  IF value = VNone THEN Ok(VNone) ELSE int(_parse_token(value.v))

\* int(parse_token(value)) + 1
Increment(parsed) == IF parsed.ok THEN Ok(VInt(parsed.val.v + 1)) ELSE parsed

\* the decode routine of the custom encoding IncEncoding
_decode_inc(node) ==
    LET value == node_text(node)
    IN  IF value = VNone THEN Ok(VNone) ELSE Increment(int(_parse_token(value.v)))

(***************************************************************************)
(* Attribute encodings.                                                    *)
(***************************************************************************)
RECURSIVE AttributeEncoding_decode(_, _)
AttributeEncoding_decode(encoding, value) ==
    IF encoding.kind = "RequiredAttribute"
    THEN IF value = VNone
         THEN Err("MissingAttribute")
         ELSE IF encoding.decode = "int" THEN int(value.v) ELSE Ok(value)
    ELSE IF value = VNone
         THEN Ok(VNone)
         ELSE AttributeEncoding_decode(encoding.inner, value)

(***************************************************************************)
(* Value encodings: create_empty_value, parse and unwrap.                  *)
(***************************************************************************)
create_empty_value(encoding) ==
    CASE encoding.kind = "Required" -> VNone
      [] encoding.kind = "Optional" -> NoValue
      [] encoding.kind = "List" -> VList(<<>>)

\* RequiredValueEncoding.parse, line 171
RequiredHasValue(current_value) == current_value # VNone

\* OptionalValueEncoding.parse, line 199
OptionalHasValueOrNone(current_value) == current_value \notin {NoValue, VNone}

OptionalHasValue(current_value) == current_value # NoValue

\* RequiredValueEncoding.parse, lines 175-178, on the decoded value
RequiredAcceptAny(decoded) == decoded

RequiredDecoded(decoded) ==
    IF decoded.ok /\ decoded.val = VNone THEN Err("Missing value") ELSE decoded

RequiredValueEncoding_unwrap(current_value) ==
    IF current_value = VNone THEN Err("Missing value") ELSE Ok(current_value)

OptionalUnwrapNoValue(current_value) == Ok(current_value)

OptionalValueEncoding_unwrap(current_value) ==
    IF current_value = NoValue THEN Ok(VNone) ELSE Ok(current_value)

ListEncoding_unwrap(current_value) == Ok(current_value)

Encoding_unwrap(encoding, current_value) ==
    CASE encoding.kind = "Required" -> RequiredValueEncoding_unwrap(current_value)
      [] encoding.kind = "Optional" -> OptionalValueEncoding_unwrap(current_value)
      [] encoding.kind = "List" -> ListEncoding_unwrap(current_value)

\* current_value.append(inner_value), line 227
list_prepend(current_value, inner_value) == VList(<<inner_value>> \o current_value.v)

list_append(current_value, inner_value) == VList(Append(current_value.v, inner_value))

(***************************************************************************)
(* The decode routines.  heap is the heap of dataclass encodings that      *)
(* derive() built.                                                         *)
(***************************************************************************)
\* _derive_union._decode, line 498
NotSingleChildOnlyEmpty(node) == Len(node.children) = 0

NotSingleChild(node) == Len(node.children) # 1

\* _derive_dataclass._decode, lines 585-586: a child whose tag has no entry
\* in values is passed over
UnknownChildRaises(values, child) ==
    [ok |-> FALSE, values |-> values, err |-> "UnexpectedChildNodeException"]

UnknownChild(values, child) == [ok |-> TRUE, values |-> values, err |-> ""]

RECURSIVE Encoding_decode(_, _, _)
RECURSIVE RunDecoder(_, _, _)
RECURSIVE Encoding_parse(_, _, _, _)
RECURSIVE DecodeChildren(_, _, _, _)
RECURSIVE UnwrapValues(_, _, _)
RECURSIVE DecodeAttributes(_, _, _, _)

\* encoding.decode(node): Optional and List encodings forward to the decode of
\* their inner encoding
Encoding_decode(encoding, node, heap) ==
    IF encoding.kind \in {"Optional", "List"}
    THEN Encoding_decode(encoding.inner, node, heap)
    ELSE RunDecoder(encoding.decode, node, heap)

\* ListEncoding.parse, lines 225-228, on the parsed item
ListEncoding_parsed(current_value, inner_encoding, parsed) ==
    IF ~parsed.ok
    THEN parsed
    ELSE IF ~Encoding_unwrap(inner_encoding, parsed.val).ok
    THEN Encoding_unwrap(inner_encoding, parsed.val)
    ELSE Ok(list_append(current_value, Encoding_unwrap(inner_encoding, parsed.val).val))

\* an OptionalValueEncoding.parse that turns a failure of the inner decode
\* into None
Encoding_parse_lenient(encoding, current_value, node, heap) ==
    IF encoding.kind = "Required"
    THEN IF RequiredHasValue(current_value)
         THEN Err("Duplicate value")
         ELSE RequiredDecoded(Encoding_decode(encoding, node, heap))
    ELSE IF encoding.kind = "Optional"
    THEN IF OptionalHasValue(current_value)
         THEN Err("Duplicate value")
         ELSE IF Encoding_decode(encoding, node, heap).ok
         THEN Encoding_decode(encoding, node, heap)
         ELSE Ok(VNone)
    ELSE ListEncoding_parsed(current_value, encoding.inner,
                             Encoding_parse(encoding.inner, create_empty_value(encoding.inner),
                                            node, heap))

Encoding_parse(encoding, current_value, node, heap) ==
    IF encoding.kind = "Required"
    THEN IF RequiredHasValue(current_value)
         THEN Err("Duplicate value")
         ELSE RequiredDecoded(Encoding_decode(encoding, node, heap))
    ELSE IF encoding.kind = "Optional"
    THEN IF OptionalHasValue(current_value)
         THEN Err("Duplicate value")
         ELSE Encoding_decode(encoding, node, heap)
    ELSE ListEncoding_parsed(current_value, encoding.inner,
                             Encoding_parse(encoding.inner, create_empty_value(encoding.inner),
                                            node, heap))

\* the values dict of _derive_dataclass._decode, lines 579-582; an entry
\* holds the encoding and the current value
InitialValues(value_encodings) ==
    LET RECURSIVE Build(_, _)
        Build(values, i) ==
            IF i > Len(value_encodings)
            THEN values
            ELSE Build(DictSet(values, value_encodings[i][1],
                               <<value_encodings[i][2],
                                 create_empty_value(value_encodings[i][2])>>),
                       i + 1)
    IN  Build(<<>>, 1)

\* line 589: the parsed value replaces the current value of the field
StoreValue(values, tag, encoding, value) ==
    IF value.ok
    THEN [ok |-> TRUE, err |-> "", values |-> DictSet(values, tag, <<encoding, value.val>>)]
    ELSE [ok |-> FALSE, err |-> value.err, values |-> values]

\* one pass of the loop over the children, lines 584-589
DecodeChild(values, child, heap) ==
    IF DictHas(values, child.tag)
    THEN StoreValue(values, child.tag, DictGet(values, child.tag)[1],
                    Encoding_parse(DictGet(values, child.tag)[1],
                                   DictGet(values, child.tag)[2], child, heap))
    ELSE UnknownChild(values, child)

\* after the pass for the child at position i: the loop goes on unless the
\* pass raised
NextChild(step, children, i, heap) ==
    IF step.ok THEN DecodeChildren(step.values, children, i + 1, heap) ELSE step

\* the loop over the children from position i on
DecodeChildren(values, children, i, heap) ==
    IF i > Len(children)
    THEN [ok |-> TRUE, values |-> values, err |-> ""]
    ELSE NextChild(DecodeChild(values, children[i], heap), children, i, heap)

\* the arguments dict, lines 591-594, from entry i of values on
UnwrapValues(values, i, arguments) ==
    IF i > Len(values)
    THEN [ok |-> TRUE, arguments |-> arguments, err |-> ""]
    ELSE LET unwrapped == Encoding_unwrap(values[i].val[1], values[i].val[2])
         IN  IF unwrapped.ok
             THEN UnwrapValues(values, i + 1, DictSet(arguments, values[i].key, unwrapped.val))
             ELSE [ok |-> FALSE, arguments |-> arguments, err |-> unwrapped.err]

\* the loop over attribute_encodings, lines 599-601
DecodeAttributes(attribute_encodings, i, node, arguments) ==
    IF i > Len(attribute_encodings)
    THEN [ok |-> TRUE, arguments |-> arguments, err |-> ""]
    ELSE LET attribute_name == attribute_encodings[i][1]
             decoded == AttributeEncoding_decode(attribute_encodings[i][2],
                                                 node_get(node, attribute_name))
         IN  IF decoded.ok
             THEN DecodeAttributes(attribute_encodings, i + 1, node,
                                   DictSet(arguments, attribute_name, decoded.val))
             ELSE [ok |-> FALSE, arguments |-> arguments, err |-> decoded.err]

\* line 603: the instance is built from the arguments in field order
Construct(plan, attributes) ==
    IF ~attributes.ok
    THEN Err(attributes.err)
    ELSE Ok(VObj(plan.cls,
                 [i \in 1..Len(plan.argument_names) |->
                    DictGet(attributes.arguments, plan.argument_names[i])]))

\* lines 596-597 on the decoded text, then the attributes
DecodeText(plan, node, arguments, text) ==
    IF ~text.ok
    THEN Err(text.err)
    ELSE Construct(plan,
                   DecodeAttributes(plan.attribute_encodings, 1, node,
                        DictSet(arguments,
                                _resolve_full_tag(plan.text_value_encoding[1], PyNone),
                                text.val)))

\* lines 596-603 on the unwrapped arguments
DecodeRest(plan, node, heap, unwrapped) ==
    IF ~unwrapped.ok
    THEN Err(unwrapped.err)
    ELSE IF Len(plan.text_value_encoding) # 0
    THEN DecodeText(plan, node, unwrapped.arguments,
                    Encoding_decode(plan.text_value_encoding[2], node, heap))
    ELSE Construct(plan,
                   DecodeAttributes(plan.attribute_encodings, 1, node, unwrapped.arguments))

\* lines 591-603 on the values the loop over the children left
DecodeArguments(plan, node, heap, children) ==
    IF ~children.ok
    THEN Err(children.err)
    ELSE DecodeRest(plan, node, heap, UnwrapValues(children.values, 1, <<>>))

\* _derive_dataclass._decode
dataclass_decode(plan, node, heap) ==
    DecodeArguments(plan, node, heap,
                    DecodeChildren(InitialValues(plan.value_encodings), node.children, 1, heap))

\* _derive_union._decode
union_decode(variant_encodings, node, heap) ==
    IF NotSingleChild(node)
    THEN Err("XmlStructError: Expected only single child in union")
    ELSE IF ~DictHas(variant_encodings, node.children[1].tag)
    THEN Err("XmlStructError: Unknown variant")
    ELSE Encoding_decode(DictGet(variant_encodings, node.children[1].tag),
                         node.children[1], heap)

RunDecoder(decode, node, heap) ==
    CASE decode.d = "_parse_string" -> _parse_string(node)
      [] decode.d = "_parse_int" -> _parse_int(node)
      [] decode.d = "_decode_inc" -> _decode_inc(node)
      [] decode.d = "object" -> RunDecoder(heap[decode.id].decode, node, heap)
      [] decode.d = "_none_decoder" -> Err("NotImplementedError")
      [] decode.d = "union" -> union_decode(decode.variant_encodings, node, heap)
      [] decode.d = "dataclass" -> dataclass_decode(decode, node, heap)

\* lines 330-333: the decoded root value must not be None
RootValue(value) ==
    IF value.ok /\ value.val = VNone THEN Err("Empty node") ELSE value

DocumentEncoding_parse_local_name(document_encoding, node) ==
    IF node.tag.local # document_encoding.xml_tag.local
    THEN Err("UnexpectedChildNodeException")
    ELSE RootValue(Encoding_decode(document_encoding.encoding, node,
                                   document_encoding.heap))

\* DocumentEncoding.parse on the element tree of the document
DocumentEncoding_parse(document_encoding, node) ==
    IF node.tag # document_encoding.xml_tag
    THEN Err("UnexpectedChildNodeException")
    ELSE RootValue(Encoding_decode(document_encoding.encoding, node,
                                   document_encoding.heap))

(***************************************************************************)
(* The scanner (tokenizer.py).  A Stream is the text, a sequence of         *)
(* characters, and a position counted from 0; the scanner state st holds    *)
(* the position, the events appended so far and the exception raised, if    *)
(* any.  A routine called on a state that has raised returns it as it is.   *)
(***************************************************************************)
\* the one character the three bytes ef bb bf decode to
UTF_8_BOM == "<U+FEFF>"

WHITESPACE == {" ", "\r", "\n", "\t"}

LESS_THAN == "<"

EQ == "="

QUOTES == {"'", "\""}

\* the characters of the model that match XML_NAME_START_REGEXP
NAME_START_CHARS ==
    {":", "_", "a", "b", "c", "d", "e", "g", "i", "l", "m", "n", "o", "r", "s", "t", "v", "x"}

\* the characters of the model that match XML_NAME_REGEXP
ALL_NAME_CHARS == NAME_START_CHARS \cup {"-", ".", "0", "1", "2"}

StartOpenTag(prefix, tag) == [e |-> "StartOpenTag", prefix |-> prefix, tag |-> tag]

Tokenizer_Attribute(prefix, tag, value) ==
    [e |-> "Attribute", prefix |-> prefix, tag |-> tag, value |-> value]

FinishOpenTag(empty) == [e |-> "FinishOpenTag", empty |-> empty]

Tokenizer_Text(content) == [e |-> "Text", content |-> content]

CloseTag(prefix, tag) == [e |-> "CloseTag", prefix |-> prefix, tag |-> tag]

\* Stream(data): the position is 0
Stream == [position |-> 0, events |-> <<>>, err |-> ""]

Raised(st, err) == IF st.err # "" THEN st ELSE [st EXCEPT !.err = err]

\* Stream.skip
skip(st, num_bytes) == IF st.err # "" THEN st ELSE [st EXCEPT !.position = @ + num_bytes]

Emit(st, event) == IF st.err # "" THEN st ELSE [st EXCEPT !.events = Append(@, event)]

\* data[start:end] for 0 <= start
Slice(data, start, end) ==
    SubSeq(data, start + 1, IF end > Len(data) THEN Len(data) ELSE end)

at_end(data, st) == st.position >= Len(data)

current_char(data, st) == IF st.position >= Len(data) THEN PyNone ELSE data[st.position + 1]

next_char(data, st) == IF st.position + 1 >= Len(data) THEN PyNone ELSE data[st.position + 2]

starts_with(data, st, str) == Slice(data, st.position, st.position + Len(str)) = str

\* self._data[self._position] is an IndexError at or after the end
OutOfRange(data, st) == st.position >= Len(data)

RECURSIVE skip_spaces(_, _)
skip_spaces(data, st) ==
    IF st.err # "" \/ st.position = Len(data)
    THEN st
    ELSE IF OutOfRange(data, st)
    THEN Raised(st, "IndexError")
    ELSE IF data[st.position + 1] \in WHITESPACE
    THEN skip_spaces(data, skip(st, 1))
    ELSE st

starts_with_space(data, st) == ~OutOfRange(data, st) /\ data[st.position + 1] \in WHITESPACE

consume_declaration_spaces(data, st) ==
    IF st.err # ""
    THEN st
    ELSE IF OutOfRange(data, st)
    THEN Raised(st, "IndexError")
    ELSE IF data[st.position + 1] \in WHITESPACE
    THEN skip_spaces(data, st)
    ELSE IF starts_with(data, st, <<"?", ">">>)
    THEN st
    ELSE Raised(st, "Exception: Expected at least one whitespace character")

consume_char(data, st, expected_char) ==
    IF st.err # ""
    THEN st
    ELSE IF OutOfRange(data, st)
    THEN Raised(st, "IndexError")
    ELSE IF data[st.position + 1] # expected_char
    THEN Raised(st, "XmlException: Expected char")
    ELSE skip(st, 1)

consume_str(data, st, expected_str) ==
    IF st.err # ""
    THEN st
    ELSE IF ~starts_with(data, st, expected_str)
    THEN Raised(st, "XmlException: Expected str")
    ELSE skip(st, Len(expected_str))

\* Stream.consume_until: the position of the first character of
\* read_until_char from position on, Len(data) + 1 when the index runs off
\* the end of the text
RECURSIVE UntilPosition(_, _, _)
UntilPosition(data, position, read_until_char) ==
    IF position >= Len(data)
    THEN Len(data) + 1
    ELSE IF data[position + 1] \in read_until_char
    THEN position
    ELSE UntilPosition(data, position + 1, read_until_char)

\* Stream.consume_until; the text read is data[start:position]
consume_until(data, st, read_until_char) ==
    IF st.err # ""
    THEN st
    ELSE IF UntilPosition(data, st.position, read_until_char) > Len(data)
    THEN Raised(st, "IndexError")
    ELSE [st EXCEPT !.position = UntilPosition(data, st.position, read_until_char)]

\* the loop of Stream.consume_qname: the position it stops at and the
\* position of the colon (-1 for None)
RECURSIVE QNameLoop(_, _, _)
QNameLoop(data, position, split) ==
    IF position >= Len(data)
    THEN [position |-> position, split |-> split, err |-> ""]
    ELSE IF data[position + 1] = ":"
    THEN IF split = -1
         THEN QNameLoop(data, position + 1, position)
         ELSE [position |-> position, split |-> split, err |-> "Exception: multiple colons"]
    ELSE IF data[position + 1] \in ALL_NAME_CHARS
    THEN QNameLoop(data, position + 1, split)
    ELSE [position |-> position, split |-> split, err |-> ""]

\* the rest of Stream.consume_qname on what the loop found
QName(data, start, loop) ==
    LET prefix == IF loop.split = -1 THEN PyNone ELSE Slice(data, start, loop.split)
        local == IF loop.split = -1
                 THEN Slice(data, start, loop.position)
                 ELSE Slice(data, loop.split + 1, loop.position)
    IN  [position |-> loop.position, prefix |-> prefix, local |-> local,
         err |-> IF loop.err # "" THEN loop.err
                 ELSE IF loop.split # -1 /\ Len(prefix) = 0 THEN "IndexError"
                 ELSE IF loop.split # -1 /\ prefix[1] \notin NAME_START_CHARS
                 THEN "Exception: Invalid starting string in prefix"
                 ELSE IF Len(local) = 0 THEN "Exception: Local name must not be empty"
                 ELSE IF local[1] \notin NAME_START_CHARS
                 THEN "Exception: Invalid starting string in local"
                 ELSE ""]

\* Stream.consume_qname from the position of st
consume_qname(data, st) == QName(data, st.position, QNameLoop(data, st.position, -1))

\* the stream after consume_qname
AfterQName(st, qname) ==
    IF st.err # "" THEN st
    ELSE IF qname.err # "" THEN Raised(st, qname.err)
    ELSE [st EXCEPT !.position = qname.position]

consume_quote(data, st) ==
    IF st.err # ""
    THEN st
    ELSE IF OutOfRange(data, st)
    THEN Raised(st, "IndexError")
    ELSE IF data[st.position + 1] \notin QUOTES
    THEN Raised(st, "XmlException: Expected quote")
    ELSE skip(st, 1)

\* parse_attribute after the quote was consumed: the value runs to the same
\* quote or to LESS_THAN, and the quote must follow
AttributeValue_consume(data, st) ==
    IF st.err # ""
    THEN st
    ELSE consume_char(data,
                      consume_until(data, st, {data[st.position], LESS_THAN}),
                      data[st.position])

\* parse_attribute from after the name: st is the stream after Eq and quote
AttributeRead(data, qname, opened, closed) ==
    [st |-> closed, prefix |-> qname.prefix, local |-> qname.local,
     value |-> IF closed.err # "" THEN <<>>
               ELSE Slice(data, opened.position, closed.position - 1)]

AttributeOpened(data, qname, opened) ==
    AttributeRead(data, qname, opened, AttributeValue_consume(data, opened))

\* parse_attribute: the stream after the attribute, its name and its value
parse_attribute(data, st) ==
    AttributeOpened(data, consume_qname(data, st),
                    consume_quote(data,
                                  consume_char(data,
                                               AfterQName(st, consume_qname(data, st)), EQ)))

parse_comment(st) == Raised(st, "NotImplementedError")

\* parse_misc: the loop ends at the first thing that is no whitespace
parse_misc_found(data, st) ==
    IF st.err # ""
    THEN st
    ELSE IF starts_with(data, st, <<"<", "!", "-", "-">>)
    THEN parse_comment(st)
    ELSE IF starts_with(data, st, <<"<", "?">>)
    THEN Raised(st, "XmlException: Processing instructions not supported")
    ELSE st

parse_misc(data, st) ==
    IF st.err # "" \/ at_end(data, st)
    THEN st
    ELSE parse_misc_found(data, skip_spaces(data, st))

\* parse_text: the text read lies between the positions of st and read
Text_read(data, st, read) ==
    IF read.err # ""
    THEN read
    ELSE IF \E i \in (st.position + 1)..(read.position - 2) :
                SubSeq(data, i, i + 2) = <<"|", "|", ">">>
    THEN Raised(read, "XmlException: Got unexpected ||> in text data")
    ELSE Emit(read, Tokenizer_Text(Slice(data, st.position, read.position)))

parse_text(data, st) == Text_read(data, st, consume_until(data, st, {"<"}))

\* parse_close_element
CloseTag_read(data, st, qname) ==
    Emit(consume_char(data, skip_spaces(data, AfterQName(st, qname)), ">"),
         CloseTag(qname.prefix, qname.local))

parse_close_element(data, st) ==
    CloseTag_read(data, skip(st, 2), consume_qname(data, skip(st, 2)))

RECURSIVE parse_element(_, _)
RECURSIVE parse_content(_, _)
RECURSIVE OpenTagLoop(_, _)

\* the case _ of parse_element: the attribute is appended and the loop goes on
OpenTag_attribute(data, attribute) ==
    OpenTagLoop(data, Emit(attribute.st,
                           Tokenizer_Attribute(attribute.prefix, attribute.local,
                                               attribute.value)))

\* a match that reports the empty-element tag as an open tag with content
OpenTag_match_not_empty(data, has_space, st) ==
    IF st.err # ""
    THEN st
    ELSE IF current_char(data, st) = "/"
    THEN Emit(consume_char(data, skip(st, 1), ">"), FinishOpenTag(FALSE))
    ELSE IF current_char(data, st) = ">"
    THEN parse_content(data, Emit(skip(st, 1), FinishOpenTag(FALSE)))
    ELSE IF ~has_space
    THEN Raised(st, "XmlException: Expected whitespace")
    ELSE OpenTag_attribute(data, parse_attribute(data, st))

\* a match that reads an attribute whether or not whitespace stood before it
OpenTag_match_unspaced(data, has_space, st) ==
    IF st.err # ""
    THEN st
    ELSE IF current_char(data, st) = "/"
    THEN Emit(consume_char(data, skip(st, 1), ">"), FinishOpenTag(TRUE))
    ELSE IF current_char(data, st) = ">"
    THEN parse_content(data, Emit(skip(st, 1), FinishOpenTag(FALSE)))
    ELSE OpenTag_attribute(data, parse_attribute(data, st))

\* the match of parse_element, on the stream after skip_spaces
OpenTag_match(data, has_space, st) ==
    IF st.err # ""
    THEN st
    ELSE IF current_char(data, st) = "/"
    THEN Emit(consume_char(data, skip(st, 1), ">"), FinishOpenTag(TRUE))
    ELSE IF current_char(data, st) = ">"
    THEN parse_content(data, Emit(skip(st, 1), FinishOpenTag(FALSE)))
    ELSE IF ~has_space
    THEN Raised(st, "XmlException: Expected whitespace")
    ELSE OpenTag_attribute(data, parse_attribute(data, st))

\* the loop of parse_element after the element name
OpenTagLoop(data, st) ==
    IF st.err # "" \/ at_end(data, st)
    THEN st
    ELSE OpenTag_match(data, starts_with_space(data, st), skip_spaces(data, st))

\* parse_element after LESS_THAN was skipped
Element_named(data, st, qname) ==
    OpenTagLoop(data, Emit(AfterQName(st, qname), StartOpenTag(qname.prefix, qname.local)))

parse_element(data, st) ==
    Element_named(data, skip(st, 1), consume_qname(data, skip(st, 1)))

parse_content(data, st) ==
    IF st.err # "" \/ at_end(data, st)
    THEN st
    ELSE IF current_char(data, st) # "<"
    THEN parse_content(data, parse_text(data, st))
    ELSE IF next_char(data, st) = "!"
    THEN parse_content(data, parse_comment(st))
    ELSE IF next_char(data, st) = "?"
    THEN Raised(st, "XmlException: Processing instructions not supported")
    ELSE IF next_char(data, st) = "/"
    THEN parse_close_element(data, st)
    ELSE parse_content(data, parse_element(data, st))

\* _parse_declaration, from the standalone attribute on
Declaration_standalone(data, st) ==
    consume_str(data,
                skip_spaces(data,
                            IF st.err = "" /\ starts_with(data, st,
                                    <<"s", "t", "a", "n", "d", "a", "l", "o", "n", "e">>)
                            THEN parse_attribute(data, st).st
                            ELSE st),
                <<"?", ">">>)

\* _parse_declaration, from the encoding attribute on
Declaration_encoding(data, st) ==
    Declaration_standalone(data,
        IF st.err = "" /\ starts_with(data, st, <<"e", "n", "c", "o", "d", "i", "n", "g">>)
        THEN consume_declaration_spaces(data, parse_attribute(data, st).st)
        ELSE st)

\* _parse_declaration, from the version attribute on
Declaration_version(data, st) ==
    IF st.err # ""
    THEN st
    ELSE IF ~starts_with(data, st, <<"v", "e", "r", "s", "i", "o", "n">>)
    THEN Raised(st, "XmlException: Missing version attribute in xml declaration")
    ELSE Declaration_encoding(data,
                              consume_declaration_spaces(data, parse_attribute(data, st).st))

_parse_declaration(data, st) == Declaration_version(data, skip_spaces(data, skip(st, 6)))

\* parse, from the root element on
parse_root(data, st) ==
    IF st.err # ""
    THEN st
    ELSE IF current_char(data, st) = "<"
    THEN parse_element(data, st)
    ELSE st

\* parse, after the root element
\* an end of parse that takes whatever is left of the text
parse_end_anything(data, st) == st

\* the end of parse: anything left of the text is an error
parse_end(data, st) ==
    IF st.err # ""
    THEN st
    ELSE IF ~at_end(data, st)
    THEN Raised(st, "XmlException: Expected EOF")
    ELSE st

\* parse, after the byte-order mark
parse_document(data, st) ==
    parse_end(data,
        parse_misc(data,
            parse_root(data,
                skip_spaces(data,
                    parse_misc(data,
                               IF starts_with(data, st, <<"<", "?", "x", "m", "l", " ">>)
                               THEN _parse_declaration(data, st)
                               ELSE st)))))

\* tokenizer.parse(data): the events, or the exception raised
tokenizer_parse(data) ==
    parse_document(data, IF starts_with(data, Stream, <<UTF_8_BOM>>)
                         THEN skip(Stream, 3)
                         ELSE Stream)

(***************************************************************************)
(* Inputs: the classes handed to derive() and the documents handed to      *)
(* parse(), as the element trees the XML parser builds from them.  An      *)
(* empty element is the same tree whether written <b></b> or <b/>.         *)
(***************************************************************************)
Tag(local) == [ns |-> PyNone, local |-> local]

Leaf(local, text) == Element(Tag(local), <<>>, text, <<>>)

Node(local, children) == Element(Tag(local), <<>>, <<>>, children)

QTag(namespace, local) == [ns |-> namespace, local |-> local]

QLeaf(namespace, local, text) == Element(QTag(namespace, local), <<>>, text, <<>>)

SeqsUpTo(S, n) == UNION {[1..m -> S] : m \in 0..n}

Layouts == UNION {[1..m -> LayoutKinds] : m \in 1..MaxFields}

NamedClasses ==
    {Class(name) : name \in {"Data", "Int", "List", "Group", "Schema", "Ping", "Pong", "A",
                             "Wrapper", "SameTag", "NoVariant", "Text", "Attr", "Attrs", "IncList",
                             "IncField", "Dated"}}

\* the records with three fields whose namespace arguments vary
NsClasses ==
    {[name |-> name, layout |-> layout] :
        name \in {"NsValue", "NsAttr"}, layout \in [1..3 -> NsOptions]}

ClashClasses == {[name |-> "Clash", layout |-> <<kind>>] : kind \in ClashKinds}

RootClasses ==
    NamedClasses \cup {[name |-> "Rec", layout |-> layout] : layout \in Layouts} \cup NsClasses
        \cup ClashClasses

\* the child elements the documents for cls are built from
ChildUniverse(cls) ==
    CASE cls.name = "Data" ->
            {Leaf("a", <<"a">>), Leaf("a", <<>>), Leaf("a", <<" ">>),
             Leaf("b", <<"b">>), Leaf("b", <<>>), Leaf("b", <<" ">>),
             Leaf("c", <<"1">>), Leaf("c", <<>>), Leaf("c", <<"\n">>),
             Leaf("x", <<"a">>), Node("x", <<Leaf("a", <<"a">>), Leaf("b", <<"b">>)>>)}
      [] cls.name = "Int" ->
            {Leaf("c", <<"1", "2">>), Leaf("c", <<" ", "1", "\n">>), Leaf("c", <<>>),
             Leaf("c", <<" ", "\t">>), Leaf("c", <<"a">>), Leaf("x", <<>>)}
      [] cls.name = "List" ->
            {Leaf("item", <<"a">>), Leaf("item", <<"b">>), Leaf("item", <<>>),
             Leaf("a", <<"a">>), Leaf("x", <<>>), Node("x", <<Leaf("item", <<"a">>)>>)}
      [] cls.name \in {"Group", "Schema"} ->
            {Leaf("name", <<"a">>),
             Node("group", <<>>),
             Node("group", <<Leaf("name", <<"a">>)>>),
             Node("group", <<Leaf("name", <<"a">>), Node("group", <<Leaf("name", <<"b">>)>>)>>),
             Node("group", <<Node("group", <<Leaf("name", <<"b">>)>>),
                             Leaf("name", <<"a">>), Leaf("x", <<>>)>>),
             Node("group", <<Leaf("name", <<"a">>), Node("group", <<>>)>>)}
      [] cls.name \in {"Ping", "Pong"} ->
            {Node("pong", <<>>), Node("ping", <<>>),
             Node("pong", <<Node("ping", <<Node("pong", <<>>)>>)>>),
             Node("pong", <<Node("again", <<>>), Node("again", <<Node("ping", <<>>)>>)>>),
             Node("again", <<>>)}
      [] cls.name \in {"Wrapper", "SameTag", "NoVariant"} ->
            {Node("u", <<>>),
             Node("u", <<Leaf("a", <<"a">>)>>),
             Node("u", <<Leaf("b", <<"b">>)>>),
             Node("u", <<Leaf("a", <<>>)>>),
             Node("u", <<Leaf("x", <<"a">>)>>),
             Node("u", <<Leaf("a", <<"a">>), Leaf("b", <<"b">>)>>),
             Node("u", <<Leaf("a", <<"a">>), Leaf("x", <<>>)>>),
             Leaf("x", <<>>)}
      [] cls.name \in {"A", "Text", "Attr"} ->
            {Leaf("a", <<"a">>), Leaf("x", <<"a">>), Leaf("value", <<"b">>)}
      [] cls.name = "Rec" ->
            {Leaf("f1", <<"a">>), Leaf("f2", <<>>)}
      [] cls.name = "Clash" ->
            {Leaf("a", <<"1">>), Leaf("x", <<>>)}
      [] cls.name \in {"IncList", "IncField"} ->
            {Leaf("item", <<"1">>), Leaf("item", <<" ", "2", "\n">>), Leaf("item", <<>>)}
      [] cls.name = "NsValue" ->
            {QLeaf("urn:field", "f1", <<"a">>), Leaf("b", <<"b">>),
             QLeaf("urn:test", "f3", <<"c">>), Leaf("f1", <<"x">>)}
      [] OTHER -> {}

RootTexts(cls) ==
    IF cls.name \in {"A", "Text", "Attr"}
    THEN {<<>>, <<"t">>, <<" ">>}
    ELSE IF cls.name = "Clash"
    THEN {<<>>, <<"t">>}
    ELSE {<<>>}

XmlAttribute(namespace, local, value) == [key |-> QTag(namespace, local), val |-> value]

\* the attribute lists of up to n attributes of universe, in every order; an
\* open tag has no two attributes of the same name
AttributeLists(universe, n) ==
    {attrib \in SeqsUpTo(universe, n) :
        \A i, j \in 1..Len(attrib) : attrib[i].key = attrib[j].key => i = j}

RootAttribs(cls) ==
    IF cls.name \in {"Attr", "Clash"}
    THEN {<<>>, <<[key |-> Tag("a"), val |-> <<"a">>]>>}
    ELSE IF cls.name = "Rec"
    THEN {<<>>, <<[key |-> Tag("f2"), val |-> <<"b">>], [key |-> Tag("f1"), val |-> <<"a">>]>>}
    ELSE IF cls.name = "Attrs"
    THEN AttributeLists({XmlAttribute(PyNone, "a", <<"A">>),
                         XmlAttribute(PyNone, "b", <<"B">>),
                         XmlAttribute(PyNone, "c", <<"1", "2">>),
                         XmlAttribute(PyNone, "c", <<"x">>),
                         XmlAttribute(PyNone, "z", <<"Z">>)}, MaxAttribs)
    ELSE IF cls.name = "NsAttr"
    THEN AttributeLists({XmlAttribute("urn:field", "f1", <<"a">>),
                         XmlAttribute(PyNone, "b", <<"b">>),
                         XmlAttribute("urn:test", "f3", <<"c">>),
                         XmlAttribute(PyNone, "f1", <<"x">>)}, MaxAttribs)
    ELSE {<<>>}

\* the qualified names of the root elements of the documents
RootTags(cls) ==
    IF cls.name \in {"NsValue", "NsAttr"}
    THEN {Tag("root"), QTag("urn:test", "root")}
    ELSE IF cls.name = "Int"
    THEN {Tag("root"), QTag("urn:test", "root"), Tag("data"), QTag("urn:test", "data"),
          QTag("urn:other", "root")}
    ELSE {Tag("root")}

Documents(cls) ==
    {Element(tag, attrib, text, children) :
        tag \in RootTags(cls), attrib \in RootAttribs(cls), text \in RootTexts(cls),
        children \in SeqsUpTo(ChildUniverse(cls), MaxChildren)}

\* the namespace argument of derive()
Namespaces == {PyNone, "urn:test"}

(***************************************************************************)
(* Inputs of the text routines.  The documents given to the scanner are    *)
(* written out from element trees, whole, cut short or followed by more    *)
(* text, next to every short text over a few characters.                   *)
(***************************************************************************)
Strings(alphabet, n) == UNION {[1..m -> alphabet] : m \in 0..n}

\* the texts given to _parse_token
TokenTexts == Strings({" ", "\t", "\n", "a", "b"}, MaxLen)

XmlName(prefix, tag) == [prefix |-> prefix, tag |-> tag]

XmlText(content) == [k |-> "text", content |-> content]

\* an element as written: the name, the attributes in source order, written
\* with the empty-element form or with content, with or without a space
\* before the end of its tags
XmlElement(name, attributes, empty, space, content) ==
    [k |-> "element", name |-> name, attributes |-> attributes, empty |-> empty,
     space |-> space, content |-> content]

ElementNames == {XmlName(PyNone, <<"a">>), XmlName(<<"n">>, <<"b">>)}

AttributeChoices ==
    LET x == [prefix |-> PyNone, tag |-> <<"x">>, value |-> <<"1">>, quote |-> "'"]
        id == [prefix |-> <<"n">>, tag |-> <<"i", "d">>, value |-> <<>>, quote |-> "\""]
    IN  {<<>>, <<x>>, <<x, id>>, <<id, x>>}

LeafElements ==
    {XmlElement(name, attributes, TRUE, space, <<>>) :
        name \in ElementNames, attributes \in AttributeChoices, space \in BOOLEAN}
    \cup
    {XmlElement(name, attributes, FALSE, space, content) :
        name \in ElementNames, attributes \in AttributeChoices, space \in BOOLEAN,
        content \in {<<>>, <<XmlText(<<"t">>)>>}}

\* what an element of the next level holds
InnerItems ==
    {XmlText(<<"t">>), XmlText(<<" ">>),
     XmlElement(XmlName(PyNone, <<"a">>), <<>>, TRUE, FALSE, <<>>),
     XmlElement(XmlName(<<"n">>, <<"b">>), <<>>, FALSE, FALSE, <<XmlText(<<"t">>)>>)}

\* character data next to character data is one text
NoAdjacentText(content) ==
    \A i \in 1..(Len(content) - 1) : content[i].k = "element" \/ content[i + 1].k = "element"

NestedElements ==
    {XmlElement(XmlName(PyNone, <<"a">>), attributes, FALSE, FALSE, content) :
        attributes \in {<<>>, <<[prefix |-> PyNone, tag |-> <<"x">>, value |-> <<"1">>, quote |-> "'"]>>},
        content \in {c \in Strings(InnerItems, 2) :
                        /\ NoAdjacentText(c)
                        /\ \E i \in 1..Len(c) : c[i].k = "element"}}

DeepElements ==
    {XmlElement(XmlName(PyNone, <<"r">>), <<>>, FALSE, FALSE, <<inner>>) :
        inner \in {e \in NestedElements : e.attributes = <<>>}}

Trees == LeafElements \cup NestedElements \cup DeepElements

QNameText(name) == IF name.prefix = PyNone THEN name.tag ELSE name.prefix \o <<":">> \o name.tag

AttributeText(attribute) ==
    <<" ">> \o QNameText(attribute) \o <<"=", attribute.quote>> \o attribute.value
        \o <<attribute.quote>>

RECURSIVE Concat(_)
Concat(texts) == IF Len(texts) = 0 THEN <<>> ELSE texts[1] \o Concat(Tail(texts))

\* the text of an element
RECURSIVE Render(_)
Render(item) ==
    IF item.k = "text"
    THEN item.content
    ELSE <<"<">> \o QNameText(item.name)
         \o Concat([i \in 1..Len(item.attributes) |-> AttributeText(item.attributes[i])])
         \o (IF item.space THEN <<" ">> ELSE <<>>)
         \o (IF item.empty
             THEN <<"/", ">">>
             ELSE <<">">>
                  \o Concat([i \in 1..Len(item.content) |-> Render(item.content[i])])
                  \o <<"<", "/">> \o QNameText(item.name)
                  \o (IF item.space THEN <<" ">> ELSE <<>>) \o <<">">>)

\* what may stand before the root element
Leads == {<<>>, <<" ">>, <<"\n", "\t">>}

WhitespaceTrailers == {<<>>, <<" ">>, <<"\r", "\n", "\t", " ">>}

\* what the documents with trailing content hold after the root element
Trailers ==
    WhitespaceTrailers
    \cup {<<"t">>, <<" ", "t">>, <<"<", "a", "/", ">">>, <<"\n", "<", "a", "/", ">">>,
          <<"<", "/", "a", ">">>, <<"<", "a", ">", "<", "/", "a", ">", " ">>,
          <<"<", "!", "-", "-", "-", "-", ">">>, <<" ", "<", "?", "p", "?", ">">>}

WholeDocuments ==
    {lead \o Render(tree) \o trail : lead \in Leads, tree \in Trees, trail \in Trailers}

\* the documents cut short somewhere after their first character
TruncatedDocuments ==
    UNION {{SubSeq(Render(tree), 1, n) : n \in 1..(Len(Render(tree)) - 1)} : tree \in Trees}

\* the open tag of an element up to its j-th attribute
OpenTagText(item, j) ==
    <<"<">> \o QNameText(item.name)
        \o Concat([i \in 1..j |-> AttributeText(item.attributes[i])])

\* an element written without the whitespace before its j-th attribute
UnspacedElement(item, j) ==
    LET open == OpenTagText(item, j - 1)
        whole == Render(item)
    IN  open \o SubSeq(whole, Len(open) + 2, Len(whole))

UnspacedDocuments ==
    UNION {{UnspacedElement(tree, j) : j \in 1..Len(tree.attributes)} : tree \in LeafElements}

\* the names of the attributes written in XML declarations: the three of
\* the declaration and one that only begins like version
VersionName == <<"v", "e", "r", "s", "i", "o", "n">>

EncodingName == <<"e", "n", "c", "o", "d", "i", "n", "g">>

StandaloneName == <<"s", "t", "a", "n", "d", "a", "l", "o", "n", "e">>

DeclarationNames == {VersionName, EncodingName, StandaloneName, VersionName \o <<"s">>}

\* up to three attributes, none of them twice
DeclarationLists ==
    {names \in Strings(DeclarationNames, 3) :
        \A i, j \in 1..Len(names) : i # j => names[i] # names[j]}

\* <?xml name='1' name='1' ?>
DeclarationText(names, space) ==
    <<"<", "?", "x", "m", "l">>
        \o Concat([i \in 1..Len(names) |-> <<" ">> \o names[i] \o <<"=", "'", "1", "'">>])
        \o (IF space THEN <<" ">> ELSE <<>>) \o <<"?", ">">>

\* what follows the declaration: nothing, or a root element
DeclarationFollowers == {<<>>, <<"<", "a", "/", ">">>, <<"\n", "<", "a", "/", ">">>}

DeclarationDocuments ==
    {DeclarationText(names, space) \o rest :
        names \in DeclarationLists, space \in BOOLEAN, rest \in DeclarationFollowers}

\* documents with a byte-order mark before them
BomDocuments ==
    {<<UTF_8_BOM>> \o data :
        data \in Strings({"<", ">", "/", "a", " "}, 3)
                    \cup {lead \o Render(tree) : lead \in Leads, tree \in LeafElements}}

\* character data with and without the end-of-CDATA marker, and with the
\* three characters parse_text looks for
MarkerTexts ==
    {<<"]", "]", ">">>, <<"t", "]", "]", ">", "t">>, <<"]", "]">>, <<"]", ">">>,
     <<"|", "|", ">">>, <<"t", "|", "|", ">">>, <<"|", "|">>}

\* <a>text</a>
MarkerDocuments ==
    {<<"<", "a", ">">> \o text \o <<"<", "/", "a", ">">> : text \in MarkerTexts}

\* elements closed under another name than the one they were opened with
MismatchedNames ==
    <<XmlName(PyNone, <<"a">>), XmlName(<<"n">>, <<"b">>), XmlName(PyNone, <<"b">>)>>

MismatchedDocuments ==
    {<<"<">> \o QNameText(MismatchedNames[open]) \o <<">">> \o inner
        \o <<"<", "/">> \o QNameText(MismatchedNames[close]) \o <<">">> :
        open \in 1..2, close \in 1..3, inner \in {<<>>, <<"t">>, <<"<", "a", "/", ">">>}}
    \cup {<<"<", "a", ">", "<", "b", ">", "<", "/", "a", ">", "<", "/", "b", ">">>}

\* the texts given to the scanner
ScanTexts ==
    Strings({"<", ">", "/", "a", " "}, MaxLen) \cup WholeDocuments \cup TruncatedDocuments
        \cup UnspacedDocuments \cup DeclarationDocuments \cup BomDocuments
        \cup MarkerDocuments \cup MismatchedDocuments

(***************************************************************************)
(* XmlParser (xml.py): a wrapper around the events the XML parser yields   *)
(* while it reads a document, a start event when an element opens and an   *)
(* end event when it closes.  The parser record holds the events of the    *)
(* document, how many of them were pulled, whether the document is cut off *)
(* after them (the next pull then meets a syntax error), the position of   *)
(* the start event skip_node was last called after, and the exception      *)
(* raised, if any.                                                         *)
(***************************************************************************)
StartEvent(tag) == [event |-> "start", tag |-> tag]

EndEvent(tag) == [event |-> "end", tag |-> tag]

EventTags == {"a", "b"}

\* the events of n elements that stand next to and inside each other
RECURSIVE Forests(_)
Forests(n) ==
    IF n = 0
    THEN {<<>>}
    ELSE UNION {UNION {{<<StartEvent(tag)>> \o inner \o <<EndEvent(tag)>> \o rest :
                            inner \in Forests(k - 1), rest \in Forests(n - k)} :
                        tag \in EventTags} : k \in 1..n}

\* the events of the documents: one root element, up to MaxNodes elements
EventStreams ==
    UNION {{<<StartEvent(tag)>> \o inner \o <<EndEvent(tag)>> :
                tag \in EventTags, inner \in Forests(n - 1)} : n \in 1..MaxNodes}

\* XmlParser(data), for the documents and for the documents cut off somewhere
XmlParser(stream, length) ==
    [events |-> SubSeq(stream, 1, length), broken |-> length < Len(stream), pulled |-> 0,
     child |-> 0, err |-> ""]

XmlParsers ==
    UNION {{XmlParser(stream, length) : length \in 0..Len(stream)} : stream \in EventStreams}

NoParser == [events |-> <<>>, broken |-> FALSE, pulled |-> 0, child |-> 0, err |-> ""]

\* what next() raises when no event is left: the syntax error of a cut-off
\* document as ParserException, else the StopIteration of the generator
XmlParser_exhausted(parser) ==
    [parser EXCEPT !.err = IF parser.broken
                           THEN "ParserException: Invalid xml document"
                           ELSE "StopIteration"]

\* self.next(): the parser after the pull
XmlParser_next(parser) ==
    IF parser.err # ""
    THEN parser
    ELSE IF parser.pulled >= Len(parser.events)
    THEN XmlParser_exhausted(parser)
    ELSE [parser EXCEPT !.pulled = @ + 1]

\* the event the last pull returned
LastEvent(parser) == parser.events[parser.pulled]

\* a loop that returns at the first end event, whatever the depth
RECURSIVE SkipLoop_first_end(_, _)
SkipLoop_first_end(parser, depths) ==
    IF parser.err # ""
    THEN parser
    ELSE IF LastEvent(parser).event = "start"
    THEN SkipLoop_first_end(XmlParser_next(parser), depths + 1)
    ELSE parser

\* the loop of skip_node after event, _ = self.next()
RECURSIVE SkipLoop(_, _)
SkipLoop(parser, depths) ==
    IF parser.err # ""
    THEN parser
    ELSE IF LastEvent(parser).event = "start"
    THEN SkipLoop(XmlParser_next(parser), depths + 1)
    ELSE IF depths = 1
    THEN parser
    ELSE SkipLoop(XmlParser_next(parser), depths - 1)

\* skip_node()
skip_node(parser) == SkipLoop(XmlParser_next([parser EXCEPT !.child = parser.pulled]), 1)

(***************************************************************************)
(* The program: derive() builds a DocumentEncoding for a class, parse()    *)
(* decodes a document with it.                                             *)
(***************************************************************************)
VARIABLES pc, root_type, document_encoding, node, result, previous, input, scanned, token,
          xml_parser

vars ==
    <<pc, root_type, document_encoding, node, result, previous, input, scanned, token,
      xml_parser>>

NoClass == [name |-> "", layout |-> <<>>]

NoNode == Element(Tag(""), <<>>, <<>>, <<>>)

\* no DocumentEncoding yet
NoDocumentEncoding ==
    [encoding |-> NoEncoding, xml_tag |-> Tag(""), heap |-> <<>>, err |-> "",
     cache |-> <<>>, trace |-> <<>>]

Init ==
    /\ pc = "start"
    /\ root_type = NoClass
    /\ document_encoding = NoDocumentEncoding
    /\ node = NoNode
    /\ result = Err("")
    /\ previous = Err("")
    /\ input = <<>>
    /\ scanned = Stream
    /\ token = <<>>
    /\ xml_parser = NoParser

\* DataEncoding = derive(cls, local_name="root", namespace=namespace)
Derive(cls, namespace) ==
    /\ pc = "start"
    /\ root_type' = cls
    /\ document_encoding' = derive(TClass(cls), "root", namespace)
    /\ pc' = IF document_encoding'.err = "" THEN "derived" ELSE "raised"
    /\ UNCHANGED <<node, result, previous, input, scanned, token, xml_parser>>

\* the classes whose DocumentEncoding the caller uses for call after call
ReusedClasses == {"IncList", "IncField"}

\* parse is called on the DocumentEncoding derive() returned; for the reused
\* classes a second call follows the first one, whatever its outcome
CanParse ==
    \/ pc = "derived"
    \/ pc = "parsed" /\ root_type.name \in ReusedClasses /\ previous = Err("")

\* a decoder whose containers still hold the children of the call before
ParseKeepingContainers(data) ==
    /\ CanParse
    /\ node' = data
    /\ result' = DocumentEncoding_parse(document_encoding,
                        [data EXCEPT !.children = node.children \o data.children])
    /\ previous' = result
    /\ pc' = "parsed"
    /\ UNCHANGED <<root_type, document_encoding, input, scanned, token, xml_parser>>

\* instance = DataEncoding.parse(data); previous is what the call before
\* this one returned or raised
Parse(data) ==
    /\ CanParse
    /\ node' = data
    /\ result' = DocumentEncoding_parse(document_encoding, data)
    /\ previous' = result
    /\ pc' = "parsed"
    /\ UNCHANGED <<root_type, document_encoding, input, scanned, token, xml_parser>>

Next ==
    \/ \E cls \in RootClasses, namespace \in Namespaces : Derive(cls, namespace)
    \/ /\ CanParse
       /\ \E data \in Documents(root_type) : Parse(data)

Spec == Init /\ [][Next]_vars

(***************************************************************************)
(* The text routines on their own: the scanner (tokenizer.parse) and the   *)
(* token normalization (_parse_token) applied to a text.                   *)
(***************************************************************************)
TextInit ==
    /\ pc = "text"
    /\ root_type = NoClass
    /\ document_encoding = NoDocumentEncoding
    /\ node = NoNode
    /\ result = Err("")
    /\ previous = Err("")
    /\ input \in ScanTexts \cup TokenTexts
    /\ scanned = Stream
    /\ token = <<>>
    /\ xml_parser = NoParser

\* events = parse(data)
Scan ==
    /\ pc = "text"
    /\ input \in ScanTexts
    /\ scanned' = tokenizer_parse(input)
    /\ pc' = "scanned"
    /\ UNCHANGED <<root_type, document_encoding, node, result, previous, input, token,
                   xml_parser>>

\* _parse_token(value)
Normalize ==
    /\ pc = "text"
    /\ input \in TokenTexts
    /\ token' = _parse_token(input)
    /\ pc' = "normalized"
    /\ UNCHANGED <<root_type, document_encoding, node, result, previous, input, scanned,
                   xml_parser>>

TextNext == Scan \/ Normalize

SpecText == TextInit /\ [][TextNext]_vars

(***************************************************************************)
(* XmlParser on its own: events are pulled one by one, and after the start *)
(* event of an element the caller may skip the element.                    *)
(***************************************************************************)
ParserInit ==
    /\ pc = "open"
    /\ root_type = NoClass
    /\ document_encoding = NoDocumentEncoding
    /\ node = NoNode
    /\ result = Err("")
    /\ previous = Err("")
    /\ input = <<>>
    /\ scanned = Stream
    /\ token = <<>>
    /\ xml_parser \in XmlParsers

\* event, data = parser.next()
NextEvent ==
    /\ pc \in {"open", "skipped"}
    /\ xml_parser' = XmlParser_next(xml_parser)
    /\ pc' = IF xml_parser'.err = "" THEN "open" ELSE "raised"
    /\ UNCHANGED <<root_type, document_encoding, node, result, previous, input, scanned,
                   token>>

\* parser.skip_node(), called right after the start event of an element
SkipNode ==
    /\ pc = "open"
    /\ xml_parser.pulled > 0
    /\ LastEvent(xml_parser).event = "start"
    /\ xml_parser' = skip_node(xml_parser)
    /\ pc' = IF xml_parser'.err = "" THEN "skipped" ELSE "raised"
    /\ UNCHANGED <<root_type, document_encoding, node, result, previous, input, scanned,
                   token>>

ParserNext == NextEvent \/ SkipNode

SpecParser == ParserInit /\ [][ParserNext]_vars

(***************************************************************************)
(* Vocabulary of the properties: the plan of the root record, the          *)
(* encoding bound to a tag, the argument a field received.                 *)
(***************************************************************************)
Parsed == pc = "parsed" /\ node.tag = document_encoding.xml_tag

Heap == document_encoding.heap

RootPlan == Heap[document_encoding.encoding.decode.id].decode

ValueEncodings == RootPlan.value_encodings

IsBound(tag) == \E i \in 1..Len(ValueEncodings) : ValueEncodings[i][1] = tag

Bound(tag) == ValueEncodings[CHOOSE i \in 1..Len(ValueEncodings) : ValueEncodings[i][1] = tag][2]

Arg(tag) ==
    result.val.args[CHOOSE i \in 1..Len(RootPlan.argument_names) :
                        RootPlan.argument_names[i] = tag]

\* no two fields of the root record resolve to the same key of arguments
DistinctKeys ==
    \A i, j \in 1..Len(RootPlan.argument_names) :
        RootPlan.argument_names[i] = RootPlan.argument_names[j] => i = j

Children == node.children

ChildrenWithTag(tag) ==
    LET HasTag(child) == child.tag = tag
    IN  SelectSeq(Children, HasTag)

\* the loop over the children accepts the children before position j
PrefixDecodes(j) ==
    DecodeChildren(InitialValues(ValueEncodings), SubSeq(Children, 1, j - 1), 1, Heap).ok

IsScalar(encoding) ==
    encoding.kind = "Required" /\ encoding.decode.d \in {"_parse_string", "_parse_int"}

IsOptionalScalar(encoding) == encoding.kind = "Optional" /\ IsScalar(encoding.inner)

IsUnion(encoding) == encoding.kind = "Required" /\ encoding.decode.d = "union"

IsEmptyElement(element) == Len(element.text) = 0 /\ Len(element.children) = 0

IsWhitespaceOnly(element) ==
    /\ Len(element.children) = 0
    /\ Len(element.text) > 0
    /\ \A i \in 1..Len(element.text) : element.text[i] \in Whitespace

RemoveChild(element, j) ==
    [element EXCEPT !.children = SubSeq(@, 1, j - 1) \o SubSeq(@, j + 1, Len(@))]

(***************************************************************************)
(* C1: in a record decode, a second child element whose tag is bound to a  *)
(* Required or Optional field makes the decode fail; the failure is the    *)
(* duplicate-value error when the children before it were accepted, also   *)
(* when the first occurrence of an Optional field decoded to None.         *)
(***************************************************************************)
C1_DuplicateValue ==
    Parsed =>
        \A j \in 1..Len(Children) :
            LET tag == Children[j].tag
            IN  ( /\ IsBound(tag)
                  /\ Bound(tag).kind \in {"Required", "Optional"}
                  /\ \E i \in 1..(j - 1) : Children[i].tag = tag )
                => /\ ~result.ok
                   /\ PrefixDecodes(j) => result.err = "Duplicate value"

C1_Witness ==
    /\ Parsed
    /\ root_type = Class("Data")
    /\ Children = <<Leaf("a", <<"a">>), Leaf("b", <<>>), Leaf("b", <<"b">>)>>
    /\ result = Err("Duplicate value")

(***************************************************************************)
(* C2: after the children, a Required field without a matching child makes *)
(* the decode fail (with the missing-value error when the children were    *)
(* accepted), an Optional field without one is None and a list field       *)
(* without one is the empty list.  The fields of the record resolve to     *)
(* different keys; records where they do not are the matter of C27.        *)
(***************************************************************************)
C2_Unwrap ==
    (Parsed /\ DistinctKeys) =>
        \A i \in 1..Len(ValueEncodings) :
            LET tag == ValueEncodings[i][1]
                kind == ValueEncodings[i][2].kind
            IN  Len(ChildrenWithTag(tag)) = 0
                => /\ kind = "Required"
                        => /\ ~result.ok
                           /\ PrefixDecodes(Len(Children) + 1) => result.err = "Missing value"
                   /\ (kind = "Optional" /\ result.ok) => Arg(tag) = VNone
                   /\ (kind = "List" /\ result.ok) => Arg(tag) = VList(<<>>)

C2_Witness ==
    /\ Parsed
    /\ root_type = Class("List")
    /\ Children = <<>>
    /\ result = Ok(VObj(Class("List"), <<VList(<<>>), VNone>>))

(***************************************************************************)
(* C3: the value of a list field is the sequence of the values decoded     *)
(* from the children with its tag, in document order, whatever other       *)
(* children stand between them.                                            *)
(***************************************************************************)
C3_ListOrder ==
    (Parsed /\ result.ok) =>
        \A i \in 1..Len(ValueEncodings) :
            LET tag == ValueEncodings[i][1]
                encoding == ValueEncodings[i][2]
                matching == ChildrenWithTag(tag)
            IN  encoding.kind = "List"
                => Arg(tag) = VList([j \in 1..Len(matching) |->
                                        Encoding_decode(encoding, matching[j], Heap).val])

C3_Witness ==
    /\ Parsed
    /\ root_type = Class("List")
    /\ Children = <<Leaf("item", <<"b">>), Node("x", <<Leaf("item", <<"a">>)>>),
                    Leaf("item", <<"a">>)>>
    /\ result = Ok(VObj(Class("List"), <<VList(<<VStr(<<"b">>), VStr(<<"a">>)>>), VNone>>))

C5_EmptyElement ==
    Parsed =>
        \A j \in 1..Len(Children) :
            LET tag == Children[j].tag
            IN  (IsBound(tag) /\ IsEmptyElement(Children[j]))
                => /\ (IsOptionalScalar(Bound(tag)) /\ result.ok) => Arg(tag) = VNone
                   /\ IsScalar(Bound(tag))
                        => /\ ~result.ok
                           /\ (PrefixDecodes(j) /\ \A i \in 1..(j - 1) : Children[i].tag # tag)
                                => result.err = "Missing value"

C5_Witness ==
    /\ Parsed
    /\ root_type = Class("Data")
    /\ Children = <<Leaf("a", <<"a">>), Leaf("b", <<>>), Leaf("c", <<>>)>>
    /\ result = Ok(VObj(Class("Data"), <<VStr(<<"a">>), VNone, VNone>>))

(***************************************************************************)
(* C6: an element whose content is only whitespace has no value: bound to  *)
(* an optional scalar field it decodes to None, bound to a required scalar *)
(* field it makes the decode fail.                                         *)
(***************************************************************************)
C6_WhitespaceOnly ==
    Parsed =>
        \A j \in 1..Len(Children) :
            LET tag == Children[j].tag
            IN  (IsBound(tag) /\ IsWhitespaceOnly(Children[j]))
                => /\ (IsOptionalScalar(Bound(tag)) /\ result.ok) => Arg(tag) = VNone
                   /\ IsScalar(Bound(tag)) => ~result.ok

(***************************************************************************)
(* C7: a union field decodes only from an element with exactly one child   *)
(* whose tag is a registered variant tag, and its value is then the value  *)
(* the encoding of that variant decodes from the child; no child, several  *)
(* children or an unregistered tag make the decode fail.                   *)
(***************************************************************************)
C7_UnionDecode ==
    Parsed =>
        \A j \in 1..Len(Children) :
            LET child == Children[j]
                tag == child.tag
            IN  (IsBound(tag) /\ IsUnion(Bound(tag)))
                => LET variants == Bound(tag).decode.variant_encodings
                       registered == /\ Len(child.children) = 1
                                     /\ DictHas(variants, child.children[1].tag)
                   IN  /\ ~registered => ~result.ok
                       /\ result.ok
                            => /\ registered
                               /\ Arg(tag) = Encoding_decode(
                                                DictGet(variants, child.children[1].tag),
                                                child.children[1], Heap).val

C7_Witness ==
    /\ Parsed
    /\ root_type = Class("Wrapper")
    /\ Children = <<Leaf("x", <<>>), Node("u", <<Leaf("b", <<"b">>)>>)>>
    /\ result = Ok(VObj(Class("Wrapper"), <<VObj(Class("B"), <<VStr(<<"b">>)>>)>>))

(***************************************************************************)
(* C8: derive() raises for a class with a union field in which two         *)
(* variants resolve to the same tag.                                       *)
(***************************************************************************)
VariantTags(type, default_namespace) ==
    [i \in 1..Len(type.args) |->
        IF type.args[i].k = "Annotated"
        THEN _get_variant_tag(type.args[i].meta, default_namespace)
        ELSE NoTag]

HasDuplicateVariantTag(cls) ==
    \E f \in 1..Len(dataclasses_fields(cls)) :
        LET type == StripAnnotated(dataclasses_fields(cls)[f].type)
        IN  /\ type.k = "Union"
            /\ _get_optional_type(type.args).k = "NoneType"
            /\ \E i, j \in 1..Len(type.args) :
                    /\ i # j
                    /\ VariantTags(type, PyNone)[i] # NoTag
                    /\ VariantTags(type, PyNone)[i] = VariantTags(type, PyNone)[j]

C8_DuplicateVariantTagRejected ==
    (pc # "start" /\ HasDuplicateVariantTag(root_type)) => pc = "raised"

(***************************************************************************)
(* C9: derive() raises "TextValue can only be used once" for a class with  *)
(* more than one text-content field, wherever the fields stand, and does   *)
(* not raise it for a class with at most one.                              *)
(***************************************************************************)
TextFields(cls) ==
    {i \in 1..Len(dataclasses_fields(cls)) :
        _get_field_config(dataclasses_fields(cls)[i]).a = "TextValue"}

C9_TextValueOnce ==
    pc # "start" =>
        (Cardinality(TextFields(root_type)) > 1
            <=> document_encoding.err = "XmlStructError: TextValue can only be used once")

C9_Witness ==
    /\ pc = "raised"
    /\ root_type = [name |-> "Rec", layout |-> <<"text", "value", "text">>]
    /\ document_encoding.err = "XmlStructError: TextValue can only be used once"

(***************************************************************************)
(* C10: derive() ends without exhausting the recursion, also for classes   *)
(* that refer to themselves or to each other: a class is in the cache      *)
(* whenever one of its fields is compiled, no class is compiled twice, and *)
(* every reference to a class is the one encoding the cache holds for it.  *)
(***************************************************************************)
RECURSIVE ClassReferences(_)
ClassReferences(encoding) ==
    IF encoding.kind \in {"Optional", "List"}
    THEN ClassReferences(encoding.inner)
    ELSE IF encoding.kind # "Required"
    THEN {}
    ELSE IF encoding.decode.d = "object"
    THEN {encoding.decode.id}
    ELSE IF encoding.decode.d = "union"
    THEN UNION {ClassReferences(encoding.decode.variant_encodings[i].val) :
                    i \in 1..Len(encoding.decode.variant_encodings)}
    ELSE {}

ReferencesOfPlan(plan) ==
    UNION ( {ClassReferences(plan.value_encodings[i][2]) : i \in 1..Len(plan.value_encodings)}
            \cup {IF Len(plan.text_value_encoding) = 0 THEN {}
                  ELSE ClassReferences(plan.text_value_encoding[2])} )

C10_DeriveTerminates ==
    pc # "start" =>
        /\ document_encoding.err # "RecursionError"
        /\ \A p \in 1..Len(document_encoding.trace) :
                document_encoding.trace[p].ev = "field" => document_encoding.trace[p].cached
        /\ \A i, j \in 1..Len(Heap) : Heap[i].cls = Heap[j].cls => i = j
        /\ pc # "raised" =>
                \A i \in 1..Len(Heap) :
                    \A id \in ReferencesOfPlan(Heap[i].decode) :
                        /\ id \in 1..Len(Heap)
                        /\ DictGet(document_encoding.cache, Heap[id].cls) = id

C10_Witness ==
    /\ pc = "derived"
    /\ root_type = Class("Pong")
    /\ Len(Heap) = 2
    /\ ReferencesOfPlan(Heap[1].decode) = {1, 2}
    /\ ReferencesOfPlan(Heap[2].decode) = {1}

(***************************************************************************)
(* C11: the qualified name bound to a field, element child or attribute,   *)
(* has the explicit namespace of the field when one is given, no namespace *)
(* when the field says None even under a default namespace, and the        *)
(* default namespace of derive() otherwise; its local name is the name     *)
(* override if given, else the member name.  A decoded field holds the     *)
(* value found under exactly that qualified name.                          *)
(***************************************************************************)
\* the namespace argument of the derive() call
DeriveNamespace == document_encoding.xml_tag.ns

\* the namespace and name arguments written on field i of an Ns class
NsArgument(i) == root_type.layout[i]

NameArgument(i) == IF i = 2 /\ NsArgument(i) # "plain" THEN "b" ELSE PyNone

ExpectedTag(i) ==
    [ns |-> IF NsArgument(i) = "urn:field" THEN "urn:field"
            ELSE IF NsArgument(i) = PyNone THEN PyNone
            ELSE DeriveNamespace,
     local |-> IF NameArgument(i) # PyNone THEN NameArgument(i) ELSE FieldNames[i]]

\* the value the document holds under the qualified name tag
ValueUnder(tag, as_attribute) ==
    IF as_attribute
    THEN node_get(node, tag)
    ELSE IF \E j \in 1..Len(node.children) : node.children[j].tag = tag
    THEN node_text(node.children[CHOOSE j \in 1..Len(node.children) :
                                    node.children[j].tag = tag])
    ELSE VNone

IsAttributeField(i) == root_type.name = "NsAttr" /\ NsArgument(i) # "plain"

C11_NamespacePrecedence ==
    (pc \in {"derived", "parsed"} /\ root_type.name \in {"NsValue", "NsAttr"}) =>
        /\ \A i \in 1..3 :
                /\ RootPlan.argument_names[i] = ExpectedTag(i)
                /\ IF IsAttributeField(i)
                   THEN \E k \in 1..Len(RootPlan.attribute_encodings) :
                            RootPlan.attribute_encodings[k][1] = ExpectedTag(i)
                   ELSE \E k \in 1..Len(RootPlan.value_encodings) :
                            RootPlan.value_encodings[k][1] = ExpectedTag(i)
        /\ (Parsed /\ result.ok) =>
                \A i \in 1..3 :
                    result.val.args[i] = ValueUnder(ExpectedTag(i), IsAttributeField(i))

\* the three cases on one record under a default namespace
C11_Witness ==
    /\ Parsed /\ result.ok
    /\ root_type.layout = <<"urn:field", PyNone, DefaultNamespace>>
    /\ DeriveNamespace = "urn:test"
    /\ root_type.name = "NsValue"
    /\ Len(node.children) = 3
    /\ result.val.args = <<VStr(<<"a">>), VStr(<<"b">>), VStr(<<"c">>)>>

(***************************************************************************)
(* C12: when the qualified name of the root element differs from the one   *)
(* derive() was given, in local name or in namespace, parse raises the     *)
(* unexpected-node error whatever the document holds, also where the root  *)
(* plan would have raised another error: the plan is not run.              *)
(***************************************************************************)
\* what the root plan makes of the document
RootPlanResult == Encoding_decode(document_encoding.encoding, node, Heap)

C12_RootTagChecked ==
    pc = "parsed" =>
        IF node.tag = document_encoding.xml_tag
        THEN result.err # "UnexpectedChildNodeException"
        ELSE result = Err("UnexpectedChildNodeException")

\* the namespace alone differs and the content would not decode
C12_Witness ==
    /\ pc = "parsed"
    /\ node.tag.local = document_encoding.xml_tag.local
    /\ node.tag.ns # document_encoding.xml_tag.ns
    /\ RootPlanResult.err = "ValueError"
    /\ result = Err("UnexpectedChildNodeException")

(***************************************************************************)
(* C13: an attribute-bound field whose attribute is absent makes the       *)
(* decode fail when the field is required and is None when it is optional; *)
(* an attribute that is present is decoded to the value of the field, and  *)
(* the order of the attributes on the open tag makes no difference.        *)
(***************************************************************************)
HasAttribute(local) == DictHas(node.attrib, Tag(local))

AttributeValue(local) == DictGet(node.attrib, Tag(local))

Reverse(seq) == [i \in 1..Len(seq) |-> seq[Len(seq) + 1 - i]]

C13_Attributes ==
    (Parsed /\ root_type.name = "Attrs") =>
        /\ ~HasAttribute("b") => result = Err("MissingAttribute")
        /\ (HasAttribute("b") /\ HasAttribute("c") /\ ~int(AttributeValue("c")).ok)
                => result = Err("ValueError")
        /\ (HasAttribute("b") /\ (HasAttribute("c") => int(AttributeValue("c")).ok)) =>
                /\ result.ok
                /\ result.val.args[1] =
                        IF HasAttribute("a") THEN VStr(AttributeValue("a")) ELSE VNone
                /\ result.val.args[2] = VStr(AttributeValue("b"))
                /\ result.val.args[3] =
                        IF HasAttribute("c") THEN int(AttributeValue("c")).val ELSE VNone
        /\ result = DocumentEncoding_parse(document_encoding,
                                           [node EXCEPT !.attrib = Reverse(node.attrib)])

\* the attributes are written in the reverse of the field order
C13_Witness ==
    /\ Parsed /\ root_type.name = "Attrs"
    /\ Len(node.attrib) = 3
    /\ node.attrib[1].key = Tag("c") /\ node.attrib[2].key = Tag("b")
    /\ node.attrib[3].key = Tag("a")
    /\ result = Ok(VObj(root_type, <<VStr(<<"A">>), VStr(<<"B">>), VInt(12)>>))

(***************************************************************************)
(* C14: the items of a list field whose item type is annotated with a      *)
(* custom value encoding are decoded with that encoding: each item is the  *)
(* value the custom decode routine gives for its element.                  *)
(***************************************************************************)
C14_ListItemCustomEncoding ==
    (Parsed /\ root_type.name = "IncList" /\ result.ok) =>
        /\ Len(result.val.args[1].v) = Len(node.children)
        /\ \A j \in 1..Len(node.children) :
                result.val.args[1].v[j] = _decode_inc(node.children[j]).val

(***************************************************************************)
(* C15: a record with a field of type date compiles without error; date    *)
(* has a built-in plan like str and int.                                   *)
(***************************************************************************)
C15_DateCompiles ==
    (pc # "start" /\ root_type.name = "Dated") =>
        /\ pc # "raised"
        /\ document_encoding.err = ""

(***************************************************************************)
(* C16: parse keeps no state between calls.  Whatever calls were made with *)
(* a DocumentEncoding before, and whether they returned or raised, the     *)
(* result for a document is the result a freshly derived DocumentEncoding  *)
(* gives for it; so the same document always decodes to the same value,    *)
(* and no list carries items of an earlier call.                           *)
(***************************************************************************)
FreshResult ==
    DocumentEncoding_parse(derive(TClass(root_type), "root", DeriveNamespace), node)

\* the call that gave result followed an earlier call on the DocumentEncoding
CalledBefore == pc = "parsed" /\ previous # Err("")

NonWhitespace(value) == SelectSeq(value, LAMBDA c : c \notin Whitespace)

\* the position in value of its k-th character that is not whitespace
PositionOf(value, k) ==
    CHOOSE i \in 1..Len(value) :
        /\ value[i] \notin Whitespace
        /\ Cardinality({j \in 1..i : value[j] \notin Whitespace}) = k

FollowedByWhitespace(value, k) ==
    LET i == PositionOf(value, k)
    IN  i < Len(value) /\ value[i + 1] \in Whitespace

IsNormalized(value) ==
    /\ Len(value) > 0 => value[1] \notin Whitespace /\ value[Len(value)] \notin Whitespace
    /\ \A i \in 1..(Len(value) - 1) :
            ~(value[i] \in Whitespace /\ value[i + 1] \in Whitespace)
    /\ \A i \in 1..Len(value) : value[i] \in Whitespace => value[i] = " "

C17_TokenNormalized ==
    pc = "normalized" =>
        /\ IsNormalized(token)
        /\ NonWhitespace(token) = NonWhitespace(input)
        /\ \A k \in 1..(Len(NonWhitespace(input)) - 1) :
                FollowedByWhitespace(token, k) <=> FollowedByWhitespace(input, k)
        /\ _parse_token(token) = token

\* a text with whitespace before, after and between two words
C17_Witness ==
    /\ pc = "normalized"
    /\ input = <<" ", "a", "\t", "\n", "b">>
    /\ token = <<"a", " ", "b">>

(***************************************************************************)
(* C18: the events of an element.  For a well-formed document the scanner  *)
(* returns, for every element in document order, one StartOpenTag with its *)
(* prefix and local name, one Attribute event per attribute in source      *)
(* order and one FinishOpenTag; written with the empty-element form the    *)
(* FinishOpenTag has empty = TRUE and no CloseTag follows, written with    *)
(* content it has empty = FALSE and is followed by the events of the       *)
(* content and then by one CloseTag.                                       *)
(***************************************************************************)
RECURSIVE ConcatEvents(_)
ConcatEvents(lists) ==
    IF Len(lists) = 0 THEN <<>> ELSE lists[1] \o ConcatEvents(Tail(lists))

RECURSIVE Events(_)
Events(item) ==
    IF item.k = "text"
    THEN <<Tokenizer_Text(item.content)>>
    ELSE <<StartOpenTag(item.name.prefix, item.name.tag)>>
         \o [i \in 1..Len(item.attributes) |->
                Tokenizer_Attribute(item.attributes[i].prefix, item.attributes[i].tag,
                                    item.attributes[i].value)]
         \o <<FinishOpenTag(item.empty)>>
         \o (IF item.empty
             THEN <<>>
             ELSE ConcatEvents([i \in 1..Len(item.content) |-> Events(item.content[i])])
                  \o <<CloseTag(item.name.prefix, item.name.tag)>>)

\* the well-formed documents with the events their root element stands for
WellFormedDocuments ==
    {[text |-> lead \o Render(tree) \o trail, events |-> Events(tree)] :
        lead \in Leads, tree \in Trees, trail \in WhitespaceTrailers}

C18_ElementEvents ==
    pc = "scanned" =>
        \A document \in WellFormedDocuments :
            document.text = input =>
                /\ scanned.err = ""
                /\ scanned.events = document.events

\* <a x='1'><a/>t</a>: an attribute, an empty element and text in the content
C18_Witness ==
    /\ pc = "scanned"
    /\ input = <<"<", "a", " ", "x", "=", "'", "1", "'", ">", "<", "a", "/", ">", "t",
                 "<", "/", "a", ">">>
    /\ \E document \in WellFormedDocuments : document.text = input
    /\ scanned.err = ""
    /\ scanned.events =
            <<StartOpenTag(PyNone, <<"a">>), Tokenizer_Attribute(PyNone, <<"x">>, <<"1">>),
              FinishOpenTag(FALSE), StartOpenTag(PyNone, <<"a">>), FinishOpenTag(TRUE),
              Tokenizer_Text(<<"t">>), CloseTag(PyNone, <<"a">>)>>

(***************************************************************************)
(* C19: unexpected end of input.  When the text ends inside the open tag   *)
(* of the root element, after the element name or after an attribute and   *)
(* before the end of the tag, or inside the content of the root element    *)
(* before its closing tag, the scanner raises and returns no events.       *)
(***************************************************************************)
\* an element up to the j-th item of its content
ContentText(item, j) ==
    OpenTagText(item, Len(item.attributes))
        \o (IF item.space THEN <<" ">> ELSE <<>>) \o <<">">>
        \o Concat([i \in 1..j |-> Render(item.content[i])])

EndsInOpenTag ==
    UNION {{OpenTagText(tree, j) : j \in 0..Len(tree.attributes)} : tree \in Trees}

EndsInContent ==
    UNION {{ContentText(tree, j) : j \in 0..Len(tree.content)} :
              tree \in {t \in Trees : ~t.empty}}

C19_EndOfInputRaises ==
    (pc = "scanned" /\ input \in EndsInOpenTag \cup EndsInContent) =>
        scanned.err # ""

(***************************************************************************)
(* C20: at most one root element.  After the root element, whitespace      *)
(* alone is accepted up to the end of the text; anything else there, a     *)
(* second element, a closing tag, character data, a comment or a           *)
(* processing instruction, makes parse raise.                              *)
(***************************************************************************)
IsWhitespaceText(text) == \A i \in 1..Len(text) : text[i] \in {" ", "\r", "\n", "\t"}

\* the documents with something after the root element
TrailedDocuments ==
    {[text |-> lead \o Render(tree) \o trail, accepted |-> IsWhitespaceText(trail)] :
        lead \in Leads, tree \in Trees, trail \in Trailers}

C20_OneRootElement ==
    pc = "scanned" =>
        \A document \in TrailedDocuments :
            document.text = input => (scanned.err = "" <=> document.accepted)

\* <a/><a/>: a second element after the root element
C20_Witness ==
    /\ pc = "scanned"
    /\ input = <<"<", "a", "/", ">", "<", "a", "/", ">">>
    /\ \E document \in TrailedDocuments : document.text = input /\ ~document.accepted
    /\ scanned.err = "XmlException: Expected EOF"

(***************************************************************************)
(* C21: whitespace before every attribute.  When an attribute follows the  *)
(* element name or the closing quote of the attribute before it without    *)
(* whitespace, the scanner raises; the Attribute events emitted up to then *)
(* are those of the attributes before it, none for the attribute itself.   *)
(***************************************************************************)
AttributeEvents(events) == SelectSeq(events, LAMBDA event : event.e = "Attribute")

\* the elements written without whitespace before one attribute, with the
\* events of the attributes that stand before it
UnspacedCases ==
    UNION {{[text |-> UnspacedElement(tree, j),
             before |-> [i \in 1..(j - 1) |->
                            Tokenizer_Attribute(tree.attributes[i].prefix,
                                                tree.attributes[i].tag,
                                                tree.attributes[i].value)]] :
               j \in 1..Len(tree.attributes)} : tree \in LeafElements}

C21_AttributeNeedsWhitespace ==
    pc = "scanned" =>
        \A case \in UnspacedCases :
            case.text = input =>
                /\ scanned.err # ""
                /\ AttributeEvents(scanned.events) = case.before

\* <a x='1'n:id=""/>: the second attribute follows the quote of the first
C21_Witness ==
    /\ pc = "scanned"
    /\ input = <<"<", "a", " ", "x", "=", "'", "1", "'", "n", ":", "i", "d", "=", "\"", "\"",
                 "/", ">">>
    /\ \E case \in UnspacedCases : case.text = input /\ Len(case.before) = 1
    /\ scanned.err = "XmlException: Expected whitespace"
    /\ AttributeEvents(scanned.events) = <<Tokenizer_Attribute(PyNone, <<"x">>, <<"1">>)>>

(***************************************************************************)
(* C22: the XML declaration.  A declaration is accepted only with the      *)
(* attributes version, then encoding if given, then standalone if given;   *)
(* it adds no event, so a document of a declaration alone scans to no      *)
(* events and a root element after it scans to its own events; a           *)
(* declaration without a version attribute, or with the attributes out of  *)
(* order, makes the scanner raise.                                         *)
(***************************************************************************)
OrderedDeclarations ==
    {<<VersionName>>, <<VersionName, EncodingName>>, <<VersionName, StandaloneName>>,
     <<VersionName, EncodingName, StandaloneName>>}

DeclarationCases ==
    {[text |-> DeclarationText(names, space) \o rest,
      accepted |-> names \in OrderedDeclarations,
      events |-> IF rest = <<>>
                 THEN <<>>
                 ELSE <<StartOpenTag(PyNone, <<"a">>), FinishOpenTag(TRUE)>>] :
        names \in DeclarationLists, space \in BOOLEAN, rest \in DeclarationFollowers}

C22_DeclarationOrder ==
    pc = "scanned" =>
        \A case \in DeclarationCases :
            case.text = input =>
                IF case.accepted
                THEN scanned.err = "" /\ scanned.events = case.events
                ELSE scanned.err # ""

(***************************************************************************)
(* C23: the byte-order mark.  Scanning a document with a byte-order mark   *)
(* before it gives what scanning the document without the mark gives: the  *)
(* same events, or the same failure.                                       *)
(***************************************************************************)
C23_BomSkipped ==
    (pc = "scanned" /\ input \in BomDocuments) =>
        /\ scanned.err = tokenizer_parse(Tail(input)).err
        /\ scanned.err = "" => scanned.events = tokenizer_parse(Tail(input)).events

(***************************************************************************)
(* C24: the end-of-CDATA marker in text.  A text run that holds the three  *)
(* characters ]]> is rejected: the scanner raises and emits no Text event  *)
(* for it.                                                                 *)
(***************************************************************************)
Contains(text, marker) ==
    \E i \in 1..(Len(text) - Len(marker) + 1) :
        SubSeq(text, i, i + Len(marker) - 1) = marker

C24_CdataEndRejected ==
    pc = "scanned" =>
        \A text \in MarkerTexts :
            (/\ input = <<"<", "a", ">">> \o text \o <<"<", "/", "a", ">">>
             /\ Contains(text, <<"]", "]", ">">>)) =>
                /\ scanned.err # ""
                /\ \A i \in 1..Len(scanned.events) : scanned.events[i].e # "Text"

(***************************************************************************)
(* C28: the tags of a returned event list are well nested.  Each CloseTag  *)
(* carries the prefix and local name of the StartOpenTag of the element it *)
(* closes, and there are as many CloseTag events as FinishOpenTag events   *)
(* with empty = FALSE.                                                     *)
(***************************************************************************)
\* open holds the names of the elements whose open tag was started and that
\* are not closed yet, the innermost first
RECURSIVE WellNested(_, _)
WellNested(events, open) ==
    IF Len(events) = 0
    THEN TRUE
    ELSE IF events[1].e = "StartOpenTag"
    THEN WellNested(Tail(events), <<[prefix |-> events[1].prefix, tag |-> events[1].tag]>> \o open)
    ELSE IF events[1].e = "FinishOpenTag" /\ events[1].empty
    THEN Len(open) > 0 /\ WellNested(Tail(events), Tail(open))
    ELSE IF events[1].e = "CloseTag"
    THEN /\ Len(open) > 0
         /\ open[1] = [prefix |-> events[1].prefix, tag |-> events[1].tag]
         /\ WellNested(Tail(events), Tail(open))
    ELSE WellNested(Tail(events), open)

CountEvents(events, kind) == Len(SelectSeq(events, LAMBDA event : event.e = kind))

CountOpened(events) ==
    Len(SelectSeq(events, LAMBDA event : event.e = "FinishOpenTag" /\ ~event.empty))

C28_WellNested ==
    (pc = "scanned" /\ scanned.err = "") =>
        /\ WellNested(scanned.events, <<>>)
        /\ CountEvents(scanned.events, "CloseTag") = CountOpened(scanned.events)

(***************************************************************************)
(* C25: skip_node.  Called right after the start event of an element, it   *)
(* pulls the events up to and including the end event that matches that    *)
(* start, whatever is nested in the element and whatever the tags of its   *)
(* descendants, and nothing after it: the next event pulled is the first   *)
(* one after the skipped element.                                          *)
(***************************************************************************)
\* how many elements are open after events[j] that were not before events[i]
OpenBetween(events, i, j) ==
    Cardinality({m \in i..j : events[m].event = "start"})
        - Cardinality({m \in i..j : events[m].event = "end"})

IsMatchingEnd(events, i, j) ==
    /\ OpenBetween(events, i, j) = 0
    /\ \A m \in i..(j - 1) : OpenBetween(events, i, m) > 0

HasMatchingEnd(events, i) == \E j \in (i + 1)..Len(events) : IsMatchingEnd(events, i, j)

MatchingEnd(events, i) == CHOOSE j \in (i + 1)..Len(events) : IsMatchingEnd(events, i, j)

\* what a call of skip_node and the pull after it do to the parser
SkipNodeSteps ==
    /\ (SkipNode /\ HasMatchingEnd(xml_parser.events, xml_parser.pulled)) =>
            /\ pc' = "skipped"
            /\ xml_parser'.pulled = MatchingEnd(xml_parser.events, xml_parser.pulled)
            /\ LastEvent(xml_parser') = EndEvent(LastEvent(xml_parser).tag)
    /\ (pc = "skipped" /\ NextEvent /\ pc' = "open") =>
            xml_parser'.pulled = MatchingEnd(xml_parser.events, xml_parser.child) + 1

C25_SkipNode == [][SkipNodeSteps]_vars

\* the skipped element holds an element of its own tag, and an element
\* stands after it
C25_Witness ==
    /\ pc = "skipped"
    /\ xml_parser.events =
            <<StartEvent("a"), StartEvent("b"), StartEvent("b"), EndEvent("b"), EndEvent("b"),
              StartEvent("a"), EndEvent("a"), EndEvent("a")>>
    /\ xml_parser.child = 2
    /\ xml_parser.pulled = 5

(***************************************************************************)
(* C26: no null in a required field.  A record returned by parse, and      *)
(* every record it holds, has a value other than None in every field whose *)
(* declared type is not optional, whether the field is bound to a child    *)
(* element, to an attribute or to the text content; a required             *)
(* text-content field on an element without character data makes parse     *)
(* raise.                                                                  *)
(***************************************************************************)
DeclaredOptional(type) ==
    /\ StripAnnotated(type).k = "Union"
    /\ \E i \in 1..Len(StripAnnotated(type).args) :
            StripAnnotated(type).args[i].k = "NoneType"

RECURSIVE NoNullRequired(_)
NoNullRequired(value) ==
    IF value.k = "obj"
    THEN \A i \in 1..Len(value.args) :
            /\ DeclaredOptional(dataclasses_fields(value.cls)[i].type) \/ value.args[i] # VNone
            /\ NoNullRequired(value.args[i])
    ELSE IF value.k = "list"
    THEN \A i \in 1..Len(value.v) : NoNullRequired(value.v[i])
    ELSE TRUE

C26_RequiredNeverNull ==
    (pc = "parsed" /\ result.ok) => NoNullRequired(result.val)

(***************************************************************************)
(* C27: every field receives the value of its own binding.  When parse     *)
(* returns a record, each field holds the value that its own placement     *)
(* (its child elements, its attribute or the text content) decodes to on   *)
(* the document, also when two fields of the record resolve to the same    *)
(* key: no field holds the value of another field.  The value of the own   *)
(* binding is what the decode routine returns when the record plan holds   *)
(* that one field alone.                                                   *)
(***************************************************************************)
FieldKind(cls, i) == _get_metadata(dataclasses_fields(cls)[i]).m

\* the position of field i among the bindings of its kind
Rank(cls, i) == Cardinality({j \in 1..i : FieldKind(cls, j) = FieldKind(cls, i)})

OwnPlan(plan, i) ==
    [plan EXCEPT
        !.argument_names = <<plan.argument_names[i]>>,
        !.value_encodings =
            IF FieldKind(plan.cls, i) = "ValueMetadata"
            THEN <<plan.value_encodings[Rank(plan.cls, i)]>> ELSE <<>>,
        !.text_value_encoding =
            IF FieldKind(plan.cls, i) = "TextValueMetadata" THEN @ ELSE <<>>,
        !.attribute_encodings =
            IF FieldKind(plan.cls, i) = "AttributeMetadata"
            THEN <<plan.attribute_encodings[Rank(plan.cls, i)]>> ELSE <<>>]

OwnValue(i) == dataclass_decode(OwnPlan(RootPlan, i), node, Heap)

HoldsOwnValue(i, own) == own.ok => result.val.args[i] = own.val.args[1]

C27_OwnBinding ==
    (Parsed /\ result.ok) =>
        \A i \in 1..Len(RootPlan.argument_names) : HoldsOwnValue(i, OwnValue(i))

(***************************************************************************)
(* C29: the checks of an inner record apply under an optional field.  For  *)
(* a field of type Optional[record]: when a child element of the field is  *)
(* present and lacks a required child-element field of the inner record    *)
(* (an empty <group/>), parse raises; when parse returns, the field is     *)
(* None exactly when the document has no child element of the field.       *)
(***************************************************************************)
\* the fields of cls declared Optional[record], without annotation
OptionalRecordFields(cls) ==
    {i \in 1..Len(dataclasses_fields(cls)) :
        /\ DeclaredOptional(dataclasses_fields(cls)[i].type)
        /\ dataclasses_fields(cls)[i].type.k = "Union"
        /\ _get_optional_type(dataclasses_fields(cls)[i].type.args).k = "dataclass"}

InnerRecord(cls, i) == _get_optional_type(dataclasses_fields(cls)[i].type.args).cls

\* the tags of the child elements a record of cls must have
RequiredChildTags(cls) ==
    {Tag(dataclasses_fields(cls)[i].name) : i \in
        {j \in 1..Len(dataclasses_fields(cls)) :
            /\ dataclasses_fields(cls)[j].type.k \notin {"Annotated", "list"}
            /\ ~DeclaredOptional(dataclasses_fields(cls)[j].type)}}

LacksRequired(element, cls) ==
    \E tag \in RequiredChildTags(cls) :
        \A j \in 1..Len(element.children) : element.children[j].tag # tag

PresentLacking(i) ==
    \E j \in 1..Len(Children) :
        /\ Children[j].tag = Tag(dataclasses_fields(root_type)[i].name)
        /\ LacksRequired(Children[j], InnerRecord(root_type, i))

C29_InnerChecksUnderOptional ==
    Parsed =>
        \A i \in OptionalRecordFields(root_type) :
            /\ PresentLacking(i) => ~result.ok
            /\ result.ok =>
                    (result.val.args[i] = VNone
                        <=> ChildrenWithTag(Tag(dataclasses_fields(root_type)[i].name)) = <<>>)

\* <root><name>a</name><group/></root> for Group: the root has its name, the
\* inner record lacks it
C29_Witness ==
    /\ Parsed
    /\ root_type.name = "Group"
    /\ Children = <<Leaf("name", <<"a">>), Node("group", <<>>)>>
    /\ result = Err("Missing value")

\* <root><name>a</name></root> for Group: the element is absent, the field None
C29_WitnessAbsent ==
    /\ Parsed
    /\ root_type.name = "Group"
    /\ Children = <<Leaf("name", <<"a">>)>>
    /\ result.ok
    /\ result.val.args[2] = VNone

(***************************************************************************)
(* C30: no placeholder is left after derive().  Once derive() has          *)
(* returned, every record encoding that can be reached from the returned   *)
(* encoding, through Optional, List and Union encodings and through the    *)
(* fields of the records, recursive references included, holds the decode  *)
(* routine built from its fields and not the placeholder, and no parse     *)
(* call raises NotImplementedError; when the compilation fails, derive()   *)
(* raises and no document has been parsed.                                 *)
(***************************************************************************)
PlanReferences(id) ==
    IF Heap[id].decode.d = "dataclass" THEN ReferencesOfPlan(Heap[id].decode) ELSE {}

\* the record encodings reached from ids in up to n steps
RECURSIVE ReachedFrom(_, _)
ReachedFrom(ids, n) ==
    IF n = 0
    THEN ids
    ELSE ReachedFrom(ids \cup UNION {PlanReferences(id) : id \in ids}, n - 1)

ReachablePlans == ReachedFrom(ClassReferences(document_encoding.encoding), Len(Heap))

C30_NoPlaceholderLeft ==
    /\ pc \in {"derived", "parsed"} =>
            /\ document_encoding.err = ""
            /\ ReachablePlans # {}
            /\ \A id \in ReachablePlans : Heap[id].decode.d = "dataclass"
    /\ pc = "parsed" => result.err # "NotImplementedError"
    /\ pc = "raised" =>
            /\ document_encoding.err # ""
            /\ node = NoNode
            /\ result = Err("")

\* a record that refers to itself, parsed through the recursive reference
C30_Witness ==
    /\ Parsed
    /\ root_type.name = "Group"
    /\ ReachablePlans = {1}
    /\ 1 \in PlanReferences(1)
    /\ result.ok
    /\ result.val.args[2] # VNone

\* two records that refer to each other
C30_WitnessMutual ==
    /\ pc = "derived"
    /\ root_type.name = "Ping"
    /\ Cardinality(ReachablePlans) = 2

====
